---------------------------- MODULE Spec2Model ----------------------------
(***************************************************************************)
(* A model of the distribution layer of OpenTURNS as found in this         *)
(* repository: the Arcsine, Frechet and GeneralizedPareto distributions    *)
(* (parameters, range, lazy moment cache, persistence) and the             *)
(* SobolIndicesAlgorithm copy-on-write handle.                             *)
(*                                                                         *)
(* One distribution instance is held in the variable dist; every public    *)
(* member function is one action, which records what the call was and how  *)
(* it ended in the variable ret.                                           *)
(***************************************************************************)
EXTENDS Integers, Sequences, FiniteSets, TLC

VARIABLES dist, ret, handle, impl, sret

vars == <<dist, ret, handle, impl, sret>>

---------------------------------------------------------------------------
(* Bounds of the model.                                                    *)

\* points have dimension 0 .. MaxDim
MaxDim == 2
\* weights are 1 .. MaxWeight
MaxWeight == 2
\* bootstrap sizes are 1 .. MaxBootstrapSize
MaxBootstrapSize == 2

---------------------------------------------------------------------------
(* Scalar: a C++ double, modelled as an exact decimal m * 10^e, kept       *)
(* normalised (m = 0 has e = 0, otherwise m is not a multiple of 10) so    *)
(* that equal numbers are equal records.  Arithmetic is exact (rounding    *)
(* is not modelled); NaN and the infinities are not values of the model.   *)

RECURSIVE Norm(_, _)
Norm(m, e) == IF m = 0 THEN [m |-> 0, e |-> 0]
              ELSE IF m % 10 = 0 THEN Norm(m \div 10, e + 1)
              ELSE [m |-> m, e |-> e]

Sc(m, e) == Norm(m, e)

Zero == Sc(0, 0)
One == Sc(1, 0)
Two == Sc(2, 0)
Half == Sc(5, -1)

RECURSIVE Pow10(_)
Pow10(k) == IF k = 0 THEN 1 ELSE 10 * Pow10(k - 1)

RECURSIVE Digits(_)
Digits(n) == IF n < 10 THEN 1 ELSE 1 + Digits(n \div 10)

AbsInt(n) == IF n < 0 THEN 0 - n ELSE n

Sign(x) == IF x.m > 0 THEN 1 ELSE IF x.m < 0 THEN 0 - 1 ELSE 0

Neg(x) == [m |-> 0 - x.m, e |-> x.e]

Abs(x) == [m |-> AbsInt(x.m), e |-> x.e]

\* the decimal order of magnitude of a non-zero scalar
Order(x) == Digits(AbsInt(x.m)) + x.e

\* x < y for x > 0 and y > 0
LtPos(x, y) == IF Order(x) # Order(y) THEN Order(x) < Order(y)
               ELSE IF x.e >= y.e THEN x.m * Pow10(x.e - y.e) < y.m
               ELSE x.m < y.m * Pow10(y.e - x.e)

\* operator <
Lt(x, y) == IF Sign(x) # Sign(y) THEN Sign(x) < Sign(y)
            ELSE IF Sign(x) = 0 THEN FALSE
            ELSE IF Sign(x) = 1 THEN LtPos(x, y)
            ELSE LtPos(Neg(y), Neg(x))

Gt(x, y) == Lt(y, x)
Le(x, y) == Lt(x, y) \/ x = y
Ge(x, y) == Lt(y, x) \/ x = y

\* operator *
Mul(x, y) == Norm(x.m * y.m, x.e + y.e)

\* operator +, for operands whose exponents are close
Add(x, y) == LET e == IF x.e < y.e THEN x.e ELSE y.e
             IN  Norm(x.m * Pow10(x.e - e) + y.m * Pow10(y.e - e), e)

Sub(x, y) == Add(x, Neg(y))

\* 1 / x for the x whose inverse is a finite decimal (mantissa 2^i * 5^j)
Inv(x) == LET k == CHOOSE j \in 0..4 : Pow10(j) % AbsInt(x.m) = 0
          IN  Norm(Sign(x) * (Pow10(k) \div AbsInt(x.m)), 0 - x.e - k)

\* operator /
Div(x, y) == Mul(x, Inv(y))


---------------------------------------------------------------------------
(* Values returned by the numerical members.  A value computed by a closed *)
(* formula that the model does not evaluate (Gamma function, asin, exp)    *)
(* is the formula's name applied to the scalars it read.                   *)

Term(f, args) == [f |-> f, args |-> args]

Num(x) == Term("scalar", <<x>>)

\* a Point or CovarianceMatrix member that was never assigned
Unset == Term("unset", <<>>)

\* no value: the call ended with an exception
NoValue == Term("none", <<>>)

\* Interval(lowerBound, upperBound, finiteLowerBound, finiteUpperBound)
Interval(lower, upper, finiteLower, finiteUpper) ==
    [lowerBound |-> lower, upperBound |-> upper,
     finiteLowerBound |-> finiteLower, finiteUpperBound |-> finiteUpper]

---------------------------------------------------------------------------
(* How a member function ends: by returning (exc = "none") or by throwing  *)
(* the exception exc; d is the instance as the call leaves it, computed    *)
(* tells whether computeMean / computeCovariance ran during the call.      *)

Outcome(d, exc, val, computed) ==
    [d |-> d, exc |-> exc, val |-> val, computed |-> computed]

Return(d, val) == Outcome(d, "none", val, FALSE)

Throw(exc, d) == Outcome(d, exc, NoValue, FALSE)

---------------------------------------------------------------------------
(* The Advocate.  What was written of a saved object is the sequence of    *)
(* the pairs <<name, value>>, in the order of the saveAttribute calls.     *)

saveAttribute(written, name, value) == Append(written, <<name, value>>)

\* the value stored under name; every record read holds the name
loadAttribute(written, name) ==
    written[CHOOSE i \in 1..Len(written) : written[i][1] = name][2]

AttributeNames(written) == [i \in 1..Len(written) |-> written[i][1]]

AttributeValues(written) == [i \in 1..Len(written) |-> written[i][2]]

---------------------------------------------------------------------------
(* The base class DistributionImplementation / ContinuousDistribution.     *)

\* no instance has been constructed yet
NoInstance == [kind |-> "none"]

\* ContinuousDistribution(): the base part of a freshly constructed instance
ContinuousDistribution ==
    [weight_ |-> 1, range_ |-> Interval(Unset, Unset, TRUE, TRUE),
     isAlreadyComputedMean_ |-> FALSE, mean_ |-> Unset,
     isAlreadyComputedCovariance_ |-> FALSE, covariance_ |-> Unset]

\* a new instance of a class: the members of the base class and its own
ArcsineInstance(a, b) ==
    [kind |-> "Arcsine",
     weight_ |-> ContinuousDistribution.weight_,
     range_ |-> ContinuousDistribution.range_,
     isAlreadyComputedMean_ |-> ContinuousDistribution.isAlreadyComputedMean_,
     mean_ |-> ContinuousDistribution.mean_,
     isAlreadyComputedCovariance_ |-> ContinuousDistribution.isAlreadyComputedCovariance_,
     covariance_ |-> ContinuousDistribution.covariance_,
     a_ |-> a, b_ |-> b]

FrechetInstance(alpha, beta, gamma) ==
    [kind |-> "Frechet",
     weight_ |-> ContinuousDistribution.weight_,
     range_ |-> ContinuousDistribution.range_,
     isAlreadyComputedMean_ |-> ContinuousDistribution.isAlreadyComputedMean_,
     mean_ |-> ContinuousDistribution.mean_,
     isAlreadyComputedCovariance_ |-> ContinuousDistribution.isAlreadyComputedCovariance_,
     covariance_ |-> ContinuousDistribution.covariance_,
     alpha_ |-> alpha, beta_ |-> beta, gamma_ |-> gamma]

GeneralizedParetoInstance(sigma, xi) ==
    [kind |-> "GeneralizedPareto",
     weight_ |-> ContinuousDistribution.weight_,
     range_ |-> ContinuousDistribution.range_,
     isAlreadyComputedMean_ |-> ContinuousDistribution.isAlreadyComputedMean_,
     mean_ |-> ContinuousDistribution.mean_,
     isAlreadyComputedCovariance_ |-> ContinuousDistribution.isAlreadyComputedCovariance_,
     covariance_ |-> ContinuousDistribution.covariance_,
     sigma_ |-> sigma, xi_ |-> xi]

setRange(d, range) == [d EXCEPT !.range_ = range]

setWeight(d, w) == [d EXCEPT !.weight_ = w]

\* getMean(): computeMean() unless the mean is cached; cm is what
\* computeMean() does on d
getMean(d, cm) ==
    IF d.isAlreadyComputedMean_ THEN Return(d, d.mean_)
    ELSE IF cm.exc # "none" THEN Outcome(cm.d, cm.exc, NoValue, TRUE)
    ELSE Outcome(cm.d, "none", cm.d.mean_, TRUE)

\* getCovariance(): computeCovariance() unless the covariance is cached
getCovariance(d, cc) ==
    IF d.isAlreadyComputedCovariance_ THEN Return(d, d.covariance_)
    ELSE IF cc.exc # "none" THEN Outcome(cc.d, cc.exc, NoValue, TRUE)
    ELSE Outcome(cc.d, "none", cc.d.covariance_, TRUE)

\* the base class reads its own attribute, the weight, from the advocate
BaseLoad(d, adv) == [d EXCEPT !.weight_ = adv.weight_]

---------------------------------------------------------------------------
(* Arcsine                                                                 *)

Arcsine_computeRange(d) ==
    setRange(d, Interval(Num(d.a_), Num(d.b_), TRUE, TRUE))

\* Arcsine::Arcsine()
Arcsine_default ==
    Arcsine_computeRange(ArcsineInstance(Neg(One), One))

\* a variant of the constructor that accepts a = b: C6_ConstructorsValidate
\* rejects it
Arcsine_AcceptEqual(a, b) ==
    LET d == ArcsineInstance(a, b)
    IN  IF Gt(a, b) THEN Throw("InvalidArgument", d)
        ELSE Return(Arcsine_computeRange(d), NoValue)

\* Arcsine::Arcsine(a, b)
Arcsine(a, b) ==
    LET d == ArcsineInstance(a, b)
    IN  IF ~Lt(a, b) THEN Throw("InvalidArgument", d)
        ELSE Return(Arcsine_computeRange(d), NoValue)

Arcsine_computePDF(d, point) ==
    IF Len(point) # 1 THEN Throw("InvalidArgument", d)
    ELSE LET x == point[1]
         IN  IF Le(x, d.a_) \/ Ge(x, d.b_) THEN Return(d, Num(Zero))
             ELSE Return(d, Term("exp(computeLogPDF)", <<x, d.a_, d.b_>>))

\* SpecFunc::LogMinNumericalScalar (SpecFunc::LogMinScalar): the log-density
\* where the density is 0
LogMinScalar == Term("LogMinNumericalScalar", <<>>)

Arcsine_computeLogPDF(d, point) ==
    IF Len(point) # 1 THEN Throw("InvalidArgument", d)
    ELSE LET x == point[1]
         IN  IF Le(x, d.a_) \/ Ge(x, d.b_) THEN Return(d, LogMinScalar)
             ELSE Return(d, Term("-log(pi)-0.5*(log(b-x)+log(x-a))", <<x, d.a_, d.b_>>))

Arcsine_computeCDF(d, point) ==
    IF Len(point) # 1 THEN Throw("InvalidArgument", d)
    ELSE LET x == point[1]
         IN  IF Le(x, d.a_) THEN Return(d, Num(Zero))
             ELSE IF Ge(x, d.b_) THEN Return(d, Num(One))
             ELSE Return(d, Term("0.5+asin/pi", <<x, d.a_, d.b_>>))

\* a variant of computeMean that does not set the flag: C9_MomentCached
\* rejects it
Arcsine_computeMean_NoFlag(d) ==
    Return([d EXCEPT !.mean_ = Num(Mul(Half, Add(d.a_, d.b_)))], NoValue)

Arcsine_computeMean(d) ==
    Return([d EXCEPT !.mean_ = Num(Mul(Half, Add(d.a_, d.b_))),
                     !.isAlreadyComputedMean_ = TRUE], NoValue)

\* eta = 0.5 * (b_ - a_) * M_SQRT1_2, covariance_(0, 0) = eta * eta
Arcsine_computeCovariance(d) ==
    LET h == Mul(Half, Sub(d.b_, d.a_))
    IN  Return([d EXCEPT !.covariance_ = Num(Mul(Mul(h, h), Half)),
                         !.isAlreadyComputedCovariance_ = TRUE], NoValue)

Arcsine_setParameter(d, parameter) ==
    IF Len(parameter) # 2 THEN Throw("InvalidArgument", d)
    ELSE LET w == d.weight_
             c == Arcsine(parameter[1], parameter[2])
         IN  IF c.exc # "none" THEN Throw(c.exc, d)
             ELSE Return(setWeight(c.d, w), NoValue)

\* a variant of setA that keeps the cached moments: C2_NoStaleMoment rejects it
Arcsine_setA_KeepCache(d, a) ==
    IF Ge(a, d.b_) THEN Throw("InvalidArgument", d)
    ELSE IF a # d.a_
         THEN Return(Arcsine_computeRange([d EXCEPT !.a_ = a]), NoValue)
         ELSE Return(d, NoValue)

Arcsine_setA(d, a) ==
    IF Ge(a, d.b_) THEN Throw("InvalidArgument", d)
    ELSE IF a # d.a_
         THEN Return(Arcsine_computeRange(
                        [d EXCEPT !.a_ = a,
                                  !.isAlreadyComputedMean_ = FALSE,
                                  !.isAlreadyComputedCovariance_ = FALSE]), NoValue)
         ELSE Return(d, NoValue)

\* a variant of setB that accepts every value: C19_RangeOrdered rejects it
Arcsine_setB_Unchecked(d, b) ==
    IF b # d.b_
    THEN Return(Arcsine_computeRange(
                   [d EXCEPT !.b_ = b,
                             !.isAlreadyComputedMean_ = FALSE,
                             !.isAlreadyComputedCovariance_ = FALSE]), NoValue)
    ELSE Return(d, NoValue)

Arcsine_setB(d, b) ==
    IF Ge(d.a_, b) THEN Throw("InvalidArgument", d)
    ELSE IF b # d.b_
         THEN Return(Arcsine_computeRange(
                        [d EXCEPT !.b_ = b,
                                  !.isAlreadyComputedMean_ = FALSE,
                                  !.isAlreadyComputedCovariance_ = FALSE]), NoValue)
         ELSE Return(d, NoValue)

\* the base class writes the weight
Arcsine_save(d) ==
    [kind |-> "Arcsine", weight_ |-> d.weight_,
     attrs |-> saveAttribute(saveAttribute(<<>>, "a_", d.a_), "b_", d.b_)]

Arcsine_load(d, adv) ==
    Return(Arcsine_computeRange(
               [BaseLoad(d, adv) EXCEPT !.a_ = loadAttribute(adv.attrs, "a_"),
                                        !.b_ = loadAttribute(adv.attrs, "b_")]),
           NoValue)

---------------------------------------------------------------------------
(* Frechet                                                                 *)

\* the upper bound is computeUpperBound(), a numerical quantile
Frechet_computeRange(d) ==
    setRange(d, Interval(Num(d.gamma_),
                         Term("computeUpperBound", <<d.alpha_, d.beta_, d.gamma_>>),
                         TRUE, FALSE))

Frechet_setAlpha(d, alpha) ==
    IF ~Gt(alpha, Zero) THEN Throw("InvalidArgument", d)
    ELSE IF alpha # d.alpha_
         THEN Return(Frechet_computeRange(
                        [d EXCEPT !.alpha_ = alpha,
                                  !.isAlreadyComputedMean_ = FALSE,
                                  !.isAlreadyComputedCovariance_ = FALSE]), NoValue)
         ELSE Return(d, NoValue)

\* a variant of setBeta that clears the cache flags before it validates:
\* C11_SetterAtomic rejects it
Frechet_setBeta_ClearFirst(d, beta) ==
    LET c == [d EXCEPT !.isAlreadyComputedMean_ = FALSE,
                       !.isAlreadyComputedCovariance_ = FALSE]
    IN  IF ~Gt(beta, Zero) THEN Throw("InvalidArgument", c)
        ELSE IF beta # d.beta_
             THEN Return(Frechet_computeRange([c EXCEPT !.beta_ = beta]), NoValue)
             ELSE Return(d, NoValue)

Frechet_setBeta(d, beta) ==
    IF ~Gt(beta, Zero) THEN Throw("InvalidArgument", d)
    ELSE IF beta # d.beta_
         THEN Return(Frechet_computeRange(
                        [d EXCEPT !.beta_ = beta,
                                  !.isAlreadyComputedMean_ = FALSE,
                                  !.isAlreadyComputedCovariance_ = FALSE]), NoValue)
         ELSE Return(d, NoValue)

\* a variant of setGamma that assigns without comparing:
\* C27_EqualValueKeepsAll rejects it
Frechet_setGamma_Unguarded(d, gamma) ==
    Return(Frechet_computeRange(
               [d EXCEPT !.gamma_ = gamma,
                         !.isAlreadyComputedMean_ = FALSE,
                         !.isAlreadyComputedCovariance_ = FALSE]), NoValue)

Frechet_setGamma(d, gamma) ==
    IF gamma # d.gamma_
    THEN Return(Frechet_computeRange(
                   [d EXCEPT !.gamma_ = gamma,
                             !.isAlreadyComputedMean_ = FALSE,
                             !.isAlreadyComputedCovariance_ = FALSE]), NoValue)
    ELSE Return(d, NoValue)

\* Frechet::Frechet(alpha, beta, gamma)
Frechet(alpha, beta, gamma) ==
    LET d0 == FrechetInstance(alpha, beta, gamma)
        r1 == Frechet_setAlpha(d0, alpha)
        r2 == Frechet_setBeta(r1.d, beta)
        r3 == Frechet_setGamma(r2.d, gamma)
    IN  IF r1.exc # "none" THEN r1
        ELSE IF r2.exc # "none" THEN r2
        ELSE IF r3.exc # "none" THEN r3
        ELSE Return(Frechet_computeRange(r3.d), NoValue)

Frechet_computeLogPDF(d, point) ==
    IF Len(point) # 1 THEN Throw("InvalidArgument", d)
    ELSE LET x == Sub(point[1], d.gamma_)
         IN  IF Le(x, Zero) THEN Return(d, Term("LogMinNumericalScalar", <<>>))
             ELSE Return(d, Term("logPDF", <<x, d.alpha_, d.beta_>>))

\* point[0] is read before any check of the dimension: for a point of
\* dimension 0 the read is out of bounds and yields any scalar, outOfBounds
Frechet_computePDF(d, point, outOfBounds) ==
    LET first == IF Len(point) >= 1 THEN point[1] ELSE outOfBounds
        x == Sub(first, d.gamma_)
        l == Frechet_computeLogPDF(d, point)
    IN  IF Le(x, Zero) THEN Return(d, Num(Zero))
        ELSE IF l.exc # "none" THEN l
        ELSE Return(d, Term("exp", <<l.val>>))

Frechet_computeCDF(d, point) ==
    IF Len(point) # 1 THEN Throw("InvalidArgument", d)
    ELSE LET x == Sub(point[1], d.gamma_)
         IN  IF Le(x, Zero) THEN Return(d, Num(Zero))
             ELSE Return(d, Term("exp(-pow(x/beta,-alpha))", <<x, d.alpha_, d.beta_>>))

Frechet_computeMean(d) ==
    IF ~Gt(d.alpha_, One) THEN Throw("InvalidArgument", d)
    ELSE Return([d EXCEPT !.mean_ = Term("gamma+beta*Gamma(1-1/alpha)",
                                         <<d.alpha_, d.beta_, d.gamma_>>),
                          !.isAlreadyComputedMean_ = TRUE], NoValue)

\* a variant of computeCovariance that sets the flag before it tests alpha_:
\* C21_CacheFlagTransitions rejects it
Frechet_computeCovariance_FlagFirst(d) ==
    IF ~Gt(d.alpha_, Two)
    THEN Throw("InvalidArgument", [d EXCEPT !.isAlreadyComputedCovariance_ = TRUE])
    ELSE Return([d EXCEPT !.covariance_ =
                              Term("beta^2*(Gamma(1-2/alpha)-Gamma(1-1/alpha)^2)",
                                   <<d.alpha_, d.beta_>>),
                          !.isAlreadyComputedCovariance_ = TRUE], NoValue)

Frechet_computeCovariance(d) ==
    IF ~Gt(d.alpha_, Two) THEN Throw("InvalidArgument", d)
    ELSE Return([d EXCEPT !.covariance_ =
                              Term("beta^2*(Gamma(1-2/alpha)-Gamma(1-1/alpha)^2)",
                                   <<d.alpha_, d.beta_>>),
                          !.isAlreadyComputedCovariance_ = TRUE], NoValue)

\* a variant of setParameter that calls the setters on the instance itself,
\* one after the other: C1_SetParameterAtomic rejects it
Frechet_setParameter_InPlace(d, parameter) ==
    IF Len(parameter) # 3 THEN Throw("InvalidArgument", d)
    ELSE LET r1 == Frechet_setAlpha(d, parameter[1])
             r2 == Frechet_setBeta(r1.d, parameter[2])
             r3 == Frechet_setGamma(r2.d, parameter[3])
         IN  IF r1.exc # "none" THEN r1
             ELSE IF r2.exc # "none" THEN r2
             ELSE r3

Frechet_setParameter(d, parameter) ==
    IF Len(parameter) # 3 THEN Throw("InvalidArgument", d)
    ELSE LET w == d.weight_
             c == Frechet(parameter[1], parameter[2], parameter[3])
         IN  IF c.exc # "none" THEN Throw(c.exc, d)
             ELSE Return(setWeight(c.d, w), NoValue)

Frechet_save(d) ==
    [kind |-> "Frechet", weight_ |-> d.weight_,
     attrs |-> saveAttribute(saveAttribute(saveAttribute(<<>>, "alpha_", d.alpha_),
                                           "beta_", d.beta_),
                             "gamma_", d.gamma_)]

\* a variant of load that reads alpha_ and beta_ under each other's name:
\* C18_RoundTrip rejects it
Frechet_load_Swapped(d, adv) ==
    Return(Frechet_computeRange(
               [BaseLoad(d, adv) EXCEPT !.alpha_ = loadAttribute(adv.attrs, "beta_"),
                                        !.beta_ = loadAttribute(adv.attrs, "alpha_"),
                                        !.gamma_ = loadAttribute(adv.attrs, "gamma_")]),
           NoValue)

Frechet_load(d, adv) ==
    Return(Frechet_computeRange(
               [BaseLoad(d, adv) EXCEPT !.alpha_ = loadAttribute(adv.attrs, "alpha_"),
                                        !.beta_ = loadAttribute(adv.attrs, "beta_"),
                                        !.gamma_ = loadAttribute(adv.attrs, "gamma_")]),
           NoValue)

---------------------------------------------------------------------------
(* GeneralizedPareto                                                       *)

\* for xi_ >= 0 the upper bound is computeScalarQuantile(1 - Precision)
GeneralizedPareto_computeRange(d) ==
    IF Ge(d.xi_, Zero)
    THEN setRange(d, Interval(Num(Zero),
                              Term("computeScalarQuantile(1-Precision)",
                                   <<d.sigma_, d.xi_>>),
                              TRUE, FALSE))
    ELSE setRange(d, Interval(Num(Zero), Num(Div(Neg(d.sigma_), d.xi_)), TRUE, TRUE))

GeneralizedPareto_setSigma(d, sigma) ==
    IF ~Gt(sigma, Zero) THEN Throw("InvalidArgument", d)
    ELSE IF sigma # d.sigma_
         THEN Return(GeneralizedPareto_computeRange(
                        [d EXCEPT !.sigma_ = sigma,
                                  !.isAlreadyComputedMean_ = FALSE,
                                  !.isAlreadyComputedCovariance_ = FALSE]), NoValue)
         ELSE Return(d, NoValue)

\* a variant of setXi that leaves the range as it is: C3_RangeCurrent
\* rejects it
GeneralizedPareto_setXi_NoRange(d, xi) ==
    IF xi # d.xi_
    THEN Return([d EXCEPT !.xi_ = xi,
                          !.isAlreadyComputedMean_ = FALSE,
                          !.isAlreadyComputedCovariance_ = FALSE], NoValue)
    ELSE Return(d, NoValue)

GeneralizedPareto_setXi(d, xi) ==
    IF xi # d.xi_
    THEN Return(GeneralizedPareto_computeRange(
                   [d EXCEPT !.xi_ = xi,
                             !.isAlreadyComputedMean_ = FALSE,
                             !.isAlreadyComputedCovariance_ = FALSE]), NoValue)
    ELSE Return(d, NoValue)

\* GeneralizedPareto::GeneralizedPareto()
GeneralizedPareto_default ==
    GeneralizedPareto_computeRange(GeneralizedParetoInstance(One, Zero))

\* GeneralizedPareto::GeneralizedPareto(sigma, xi): sigma_ starts at 0.0 and
\* setSigma(sigma) sets it, and the range with it
GeneralizedPareto(sigma, xi) ==
    GeneralizedPareto_setSigma(GeneralizedParetoInstance(Zero, xi), sigma)

\* std::abs(z) * std::sqrt(r) < 1.0e-8 for r >= 0, decided on the squares
SmallArgument(z, r) == Lt(Mul(Mul(z, z), r), Sc(1, -16))

\* z = point[0] / sigma_ is not a number of the model when sigma_ is 0
GeneralizedPareto_computePDF(d, point) ==
    IF Len(point) # 1 THEN Throw("InvalidArgument", d)
    ELSE IF d.sigma_ = Zero
    THEN Return(d, Term("z not finite", <<point[1], d.sigma_, d.xi_>>))
    ELSE LET z == Div(point[1], d.sigma_)
         IN  IF Lt(z, Zero) THEN Return(d, Num(Zero))
             ELSE IF SmallArgument(z, Abs(d.xi_))
             THEN Return(d, Term("exp(-z)*(1+z*xi*(0.5*z-1))/sigma",
                                 <<z, d.sigma_, d.xi_>>))
             ELSE IF Lt(d.xi_, Zero) /\ Ge(z, Div(Neg(One), d.xi_))
             THEN Return(d, Num(Zero))
             ELSE Return(d, Term("exp(-(1+1/xi)*log1p(xi*z))/sigma",
                                 <<z, d.sigma_, d.xi_>>))

\* a variant of computeLogPDF that tests the upper bound before the
\* small-argument expansion: C14_LogPDFSentinel rejects it
GeneralizedPareto_computeLogPDF_BoundFirst(d, point) ==
    IF Len(point) # 1 THEN Throw("InvalidArgument", d)
    ELSE LET z == Div(point[1], d.sigma_)
         IN  IF Lt(z, Zero) THEN Return(d, LogMinScalar)
             ELSE IF Lt(d.xi_, Zero) /\ Ge(z, Div(Neg(One), d.xi_))
             THEN Return(d, LogMinScalar)
             ELSE Return(d, Term("logPDF", <<z, d.sigma_, d.xi_>>))

GeneralizedPareto_computeLogPDF(d, point) ==
    IF Len(point) # 1 THEN Throw("InvalidArgument", d)
    ELSE IF d.sigma_ = Zero
    THEN Return(d, Term("z not finite", <<point[1], d.sigma_, d.xi_>>))
    ELSE LET z == Div(point[1], d.sigma_)
         IN  IF Lt(z, Zero) THEN Return(d, LogMinScalar)
             ELSE IF SmallArgument(z, Abs(d.xi_))
             THEN Return(d, Term("-z+log1p(z*xi*(0.5*z-1))-log(sigma)",
                                 <<z, d.sigma_, d.xi_>>))
             ELSE IF Lt(d.xi_, Zero) /\ Ge(z, Div(Neg(One), d.xi_))
             THEN Return(d, LogMinScalar)
             ELSE Return(d, Term("-(1+1/xi)*log1p(xi*z)-log(sigma)",
                                 <<z, d.sigma_, d.xi_>>))

\* std::sqrt(xi_) is NaN for xi_ < 0, and no comparison with NaN is true
GeneralizedPareto_computeCDF(d, point) ==
    IF Len(point) # 1 THEN Throw("InvalidArgument", d)
    ELSE IF d.sigma_ = Zero
    THEN Return(d, Term("z not finite", <<point[1], d.sigma_, d.xi_>>))
    ELSE LET z == Div(point[1], d.sigma_)
         IN  IF Le(z, Zero) THEN Return(d, Num(Zero))
             ELSE IF Ge(d.xi_, Zero) /\ SmallArgument(z, d.xi_)
             THEN Return(d, Term("-expm1(-z)-0.5*xi*z*z*exp(-z)", <<z, d.xi_>>))
             ELSE IF Lt(d.xi_, Zero) /\ Gt(z, Div(Neg(One), d.xi_))
             THEN Return(d, Num(One))
             ELSE Return(d, Term("-expm1(-log1p(xi*z)/xi)", <<z, d.xi_>>))

GeneralizedPareto_computeMean(d) ==
    IF ~Lt(d.xi_, One) THEN Throw("NotDefined", d)
    ELSE Return([d EXCEPT !.mean_ = Term("sigma/(1-xi)", <<d.sigma_, d.xi_>>),
                          !.isAlreadyComputedMean_ = TRUE], NoValue)

GeneralizedPareto_computeCovariance(d) ==
    IF Ge(d.xi_, Half) THEN Throw("NotDefined", d)
    ELSE Return([d EXCEPT !.covariance_ =
                              Term("sigma^2/((1-2*xi)*(1-xi)^2)", <<d.sigma_, d.xi_>>),
                          !.isAlreadyComputedCovariance_ = TRUE], NoValue)

\* a variant of setParameter that keeps the weight of the fresh instance:
\* C28_SetParameterKeepsWeight rejects it
GeneralizedPareto_setParameter_FreshWeight(d, parameter) ==
    IF Len(parameter) # 2 THEN Throw("InvalidArgument", d)
    ELSE LET c == GeneralizedPareto(parameter[1], parameter[2])
         IN  IF c.exc # "none" THEN Throw(c.exc, d)
             ELSE Return(c.d, NoValue)

GeneralizedPareto_setParameter(d, parameter) ==
    IF Len(parameter) # 2 THEN Throw("InvalidArgument", d)
    ELSE LET w == d.weight_
             c == GeneralizedPareto(parameter[1], parameter[2])
         IN  IF c.exc # "none" THEN Throw(c.exc, d)
             ELSE Return(setWeight(c.d, w), NoValue)

GeneralizedPareto_save(d) ==
    [kind |-> "GeneralizedPareto", weight_ |-> d.weight_,
     attrs |-> saveAttribute(saveAttribute(<<>>, "sigma_", d.sigma_), "xi_", d.xi_)]

GeneralizedPareto_load(d, adv) ==
    Return(GeneralizedPareto_computeRange(
               [BaseLoad(d, adv) EXCEPT !.sigma_ = loadAttribute(adv.attrs, "sigma_"),
                                        !.xi_ = loadAttribute(adv.attrs, "xi_")]),
           NoValue)

---------------------------------------------------------------------------
(* SobolIndicesAlgorithm: a handle (TypedInterfaceObject) on a shared,     *)
(* reference-counted SobolIndicesAlgorithmImplementation.                  *)

Handles == {"A", "B"}

\* one implementation slot per handle is enough: each handle owns at most one
ImplIds == 1..Cardinality(Handles)

\* SobolIndicesAlgorithmImplementation(): the settings of a new implementation
SobolIndicesAlgorithmImplementation ==
    [live |-> TRUE, bootstrapSize_ |-> 1, confidenceLevel_ |-> Sc(95, -2),
     useAsymptoticDistribution_ |-> FALSE]

\* a slot that holds no implementation
Freed == [SobolIndicesAlgorithmImplementation EXCEPT !.live = FALSE]

\* Pointer::unique(): no other handle references the implementation of h
unique(hd, h) == \A g \in Handles : hd[g] = hd[h] => g = h

\* the implementations no handle references are destroyed
Release(hd, im) ==
    [i \in ImplIds |-> IF \E g \in Handles : hd[g] = i THEN im[i] ELSE Freed]

\* copyOnWrite(): a handle that shares its implementation gets a clone of it
copyOnWrite(hd, im, h) ==
    IF unique(hd, h) THEN [handle |-> hd, impl |-> im]
    ELSE LET new == CHOOSE i \in ImplIds : ~im[i].live
         IN  [handle |-> [hd EXCEPT ![h] = new],
              impl |-> [im EXCEPT ![new] = im[hd[h]]]]

\* getImplementation()->getBootstrapSize()
getBootstrapSize(hd, im, h) == im[hd[h]].bootstrapSize_

getConfidenceLevel(hd, im, h) == im[hd[h]].confidenceLevel_

getUseAsymptoticDistribution(hd, im, h) == im[hd[h]].useAsymptoticDistribution_

\* a variant of setBootstrapSize without copyOnWrite(): C4_CopyOnWrite
\* rejects it
setBootstrapSize_NoCopy(hd, im, h, bootstrapSize) ==
    [handle |-> hd, impl |-> [im EXCEPT ![hd[h]].bootstrapSize_ = bootstrapSize]]

\* copyOnWrite(); getImplementation()->setBootstrapSize(bootstrapSize)
setBootstrapSize(hd, im, h, bootstrapSize) ==
    LET c == copyOnWrite(hd, im, h)
    IN  [c EXCEPT !.impl[c.handle[h]].bootstrapSize_ = bootstrapSize]

\* a variant of setConfidenceLevel without copyOnWrite(): C20_SoleOwner
\* rejects it
setConfidenceLevel_NoCopy(hd, im, h, confidenceLevel) ==
    [handle |-> hd, impl |-> [im EXCEPT ![hd[h]].confidenceLevel_ = confidenceLevel]]

setConfidenceLevel(hd, im, h, confidenceLevel) ==
    LET c == copyOnWrite(hd, im, h)
    IN  [c EXCEPT !.impl[c.handle[h]].confidenceLevel_ = confidenceLevel]

setUseAsymptoticDistribution(hd, im, h, useAsymptoticDistribution) ==
    LET c == copyOnWrite(hd, im, h)
    IN  [c EXCEPT !.impl[c.handle[h]].useAsymptoticDistribution_ =
                      useAsymptoticDistribution]

---------------------------------------------------------------------------
(* Real: a double that a closed formula produced, kept as u + v * a for    *)
(* scalars u, v and one atom a, the value of a transcendental function     *)
(* (v = 0: the scalar u).  An atom carries the open interval ]lo, hi[ that *)
(* contains its value (loFin, hiFin: the side is bounded).  The functions  *)
(* of <cmath> are applied as real functions: each cancels its inverse, is  *)
(* exact where the library function is, and otherwise makes a new atom.    *)

Atom(f, args, lo, hi, loFin, hiFin) ==
    [f |-> f, args |-> args, lo |-> lo, hi |-> hi, loFin |-> loFin, hiFin |-> hiFin]

\* an atom about whose value nothing is known (it may be NaN or infinite)
Opaque(f, args) == Atom(f, args, Zero, Zero, FALSE, FALSE)

NoAtom == Opaque("none", <<>>)

Real(u, v, a) == IF v = Zero THEN [a |-> NoAtom, u |-> u, v |-> Zero]
                 ELSE [a |-> a, u |-> u, v |-> v]

RScalar(x) == Real(x, Zero, NoAtom)

RAtom(a) == Real(Zero, One, a)

IsScalar(r) == r.v = Zero

\* r + s, r * s, r / s, -r, r - s for a scalar s
RAdd(r, s) == Real(Add(r.u, s), r.v, r.a)
RMul(r, s) == Real(Mul(r.u, s), Mul(r.v, s), r.a)
RDiv(r, s) == RMul(r, Inv(s))
RNeg(r) == RMul(r, Neg(One))
RSub(r, s) == RAdd(r, Neg(s))

\* the open interval that contains r, for r not a scalar
RLoFin(r) == IF Gt(r.v, Zero) THEN r.a.loFin ELSE r.a.hiFin
RHiFin(r) == IF Gt(r.v, Zero) THEN r.a.hiFin ELSE r.a.loFin
RLo(r) == Add(r.u, Mul(r.v, IF Gt(r.v, Zero) THEN r.a.lo ELSE r.a.hi))
RHi(r) == Add(r.u, Mul(r.v, IF Gt(r.v, Zero) THEN r.a.hi ELSE r.a.lo))

\* r < s and r <= s for a scalar s; for r not a scalar the comparison is the
\* one its interval decides, and it has no value when the interval does not
RLt(r, s) == IF IsScalar(r) THEN Lt(r.u, s)
             ELSE CASE RHiFin(r) /\ Le(RHi(r), s) -> TRUE
                    [] RLoFin(r) /\ Ge(RLo(r), s) -> FALSE

RLe(r, s) == IF IsScalar(r) THEN Le(r.u, s) ELSE RLt(r, s)

RGe(r, s) == ~RLt(r, s)
RGt(r, s) == ~RLe(r, s)

\* M_PI
Pi == Atom("M_PI", <<>>, Sc(314, -2), Sc(315, -2), TRUE, TRUE)

\* M_PI * t for a scalar t
MulPi(t) == RMul(RAtom(Pi), t)

IsPiMultiple(r) == ~IsScalar(r) /\ r.u = Zero /\ r.a = Pi

\* std::sin
Sin(r) ==
    IF r = RScalar(Zero) THEN RScalar(Zero)
    ELSE IF IsPiMultiple(r) /\ r.v = Half THEN RScalar(One)
    ELSE IF IsPiMultiple(r) /\ r.v = Neg(Half) THEN RScalar(Neg(One))
    ELSE IF IsPiMultiple(r) /\ Gt(r.v, Zero) /\ Lt(r.v, Half)
    THEN RAtom(Atom("sin", <<r>>, Zero, One, TRUE, TRUE))
    ELSE IF IsPiMultiple(r) /\ Lt(r.v, Zero) /\ Gt(r.v, Neg(Half))
    THEN RAtom(Atom("sin", <<r>>, Neg(One), Zero, TRUE, TRUE))
    ELSE RAtom(Atom("sin", <<r>>, Neg(Two), Two, TRUE, TRUE))

\* std::asin, the inverse of sin on [-pi/2, pi/2]
Asin(r) ==
    IF r = RScalar(Zero) THEN RScalar(Zero)
    ELSE IF r = RScalar(One) THEN MulPi(Half)
    ELSE IF r = RScalar(Neg(One)) THEN MulPi(Neg(Half))
    ELSE IF /\ ~IsScalar(r) /\ r.u = Zero /\ r.v = One /\ r.a.f = "sin"
            /\ IsPiMultiple(r.a.args[1])
            /\ Le(Abs(r.a.args[1].v), Half)
    THEN r.a.args[1]
    ELSE RAtom(Atom("asin", <<r>>, Neg(Two), Two, TRUE, TRUE))

\* r / M_PI
DivPi(r) ==
    IF r = RScalar(Zero) THEN RScalar(Zero)
    ELSE IF IsPiMultiple(r) THEN RScalar(r.v)
    ELSE RAtom(Opaque("/M_PI", <<r>>))

\* std::log: log(1) = 0, log(y) < y - 1, log(y) > 0 for y > 1, log(0) is
\* -infinity and log(y) is NaN for y < 0
Log(r) ==
    IF IsScalar(r)
    THEN IF r.u = One THEN RScalar(Zero)
         ELSE IF Gt(r.u, One)
         THEN RAtom(Atom("log", <<r>>, Zero, Sub(r.u, One), TRUE, TRUE))
         ELSE IF Gt(r.u, Zero)
         THEN RAtom(Atom("log", <<r>>, Zero, Sub(r.u, One), FALSE, TRUE))
         ELSE IF r.u = Zero THEN RAtom(Opaque("-infinity", <<>>))
         ELSE RAtom(Opaque("NaN", <<>>))
    ELSE IF r.u = Zero /\ r.v = One /\ r.a.f = "exp" THEN r.a.args[1]
    ELSE RAtom(Opaque("log", <<r>>))

\* log1p(r) = log(1 + r)
Log1p(r) ==
    IF IsScalar(r) THEN Log(RAdd(r, One))
    ELSE IF r.u = Zero /\ r.v = One /\ r.a.f = "expm1" THEN r.a.args[1]
    ELSE RAtom(Opaque("log1p", <<r>>))

\* std::exp
Exp(r) ==
    IF r = RScalar(Zero) THEN RScalar(One)
    ELSE IF ~IsScalar(r) /\ r.u = Zero /\ r.v = One /\ r.a.f = "log"
    THEN r.a.args[1]
    ELSE RAtom(Atom("exp", <<r>>, Zero, Zero, TRUE, FALSE))

\* expm1(r) = exp(r) - 1: above r for r > 0, between -1 and 0 for r < 0
Expm1(r) ==
    IF r = RScalar(Zero) THEN RScalar(Zero)
    ELSE IF ~IsScalar(r) /\ r.u = Zero /\ r.v = One /\ r.a.f = "log"
    THEN RSub(r.a.args[1], One)
    ELSE IF ~IsScalar(r) /\ RLoFin(r) /\ Ge(RLo(r), Zero)
    THEN RAtom(Atom("expm1", <<r>>, RLo(r), Zero, TRUE, FALSE))
    ELSE IF ~IsScalar(r) /\ RHiFin(r) /\ Le(RHi(r), Zero)
    THEN RAtom(Atom("expm1", <<r>>, Neg(One), Zero, TRUE, TRUE))
    ELSE RAtom(Opaque("expm1", <<r>>))

\* std::pow(r, k) for a scalar k: pow(pow(x, j), k) = pow(x, j * k) for x > 0
Pow(r, k) ==
    IF ~IsScalar(r) /\ r.u = Zero /\ r.v = One /\ r.a.f = "pow"
    THEN IF Mul(r.a.args[2], k) = One THEN r.a.args[1]
         ELSE RAtom(Atom("pow", <<r.a.args[1], Mul(r.a.args[2], k)>>,
                         Zero, Zero, TRUE, FALSE))
    ELSE IF ~IsScalar(r) /\ RLoFin(r) /\ Ge(RLo(r), Zero)
    THEN RAtom(Atom("pow", <<r, k>>, Zero, Zero, TRUE, FALSE))
    ELSE RAtom(Opaque("pow", <<r, k>>))

---------------------------------------------------------------------------
(* The quantile, and the CDF and complementary CDF at a point whose        *)
(* coordinate is a Real (a quantile).                                      *)

\* a variant of the quantile that ignores tail: C13_QuantileInvertsCDF
\* rejects it
Arcsine_computeScalarQuantile_NoTail(d, prob, tail) ==
    Return(d, RAdd(RMul(Sin(MulPi(Sub(prob, Half))),
                        Mul(Half, Sub(d.b_, d.a_))),
                   Mul(Half, Add(d.a_, d.b_))))

\* Arcsine::computeScalarQuantile(prob, tail)
Arcsine_computeScalarQuantile(d, prob, tail) ==
    LET proba == IF tail THEN Sub(One, prob) ELSE prob
    IN  Return(d, RAdd(RMul(Sin(MulPi(Sub(proba, Half))),
                            Mul(Half, Sub(d.b_, d.a_))),
                       Mul(Half, Add(d.a_, d.b_))))

\* asin((x - 0.5 * (a_ + b_)) / (0.5 * (b_ - a_))) / M_PI
Arcsine_value(d, x) ==
    DivPi(Asin(RDiv(RSub(x, Mul(Half, Add(d.a_, d.b_))),
                    Mul(Half, Sub(d.b_, d.a_)))))

\* Arcsine::computeCDF at a Real
Arcsine_computeCDFReal(d, point) ==
    IF Len(point) # 1 THEN Throw("InvalidArgument", d)
    ELSE LET x == point[1]
         IN  IF RLe(x, d.a_) THEN Return(d, RScalar(Zero))
             ELSE IF RGe(x, d.b_) THEN Return(d, RScalar(One))
             ELSE Return(d, RAdd(Arcsine_value(d, x), Half))

\* Arcsine::computeComplementaryCDF at a Real
Arcsine_computeComplementaryCDFReal(d, point) ==
    IF Len(point) # 1 THEN Throw("InvalidArgument", d)
    ELSE LET x == point[1]
         IN  IF RLe(x, d.a_) THEN Return(d, RScalar(One))
             ELSE IF RGt(x, d.b_) THEN Return(d, RScalar(Zero))
             ELSE Return(d, RAdd(RNeg(Arcsine_value(d, x)), Half))

\* Frechet::computeScalarQuantile(prob, tail)
Frechet_computeScalarQuantile(d, prob, tail) ==
    LET proba == IF tail THEN Sub(One, prob) ELSE prob
    IN  Return(d, RAdd(RMul(Pow(RNeg(Log(RScalar(proba))),
                                Div(Neg(One), d.alpha_)),
                            d.beta_),
                       d.gamma_))

\* Frechet::computeCDF at a Real
Frechet_computeCDFReal(d, point) ==
    IF Len(point) # 1 THEN Throw("InvalidArgument", d)
    ELSE LET x == RSub(point[1], d.gamma_)
         IN  IF RLe(x, Zero) THEN Return(d, RScalar(Zero))
             ELSE Return(d, Exp(RNeg(Pow(RDiv(x, d.beta_), Neg(d.alpha_)))))

\* the complementary CDF of the base class, which Frechet does not override:
\* 1 - computeCDF(point)
Frechet_computeComplementaryCDFReal(d, point) ==
    LET c == Frechet_computeCDFReal(d, point)
    IN  IF c.exc # "none" THEN c ELSE Return(d, RAdd(RNeg(c.val), One))

\* GeneralizedPareto::computeScalarQuantile(prob, tail)
GeneralizedPareto_computeScalarQuantile(d, prob, tail) ==
    LET logProb == IF tail THEN Log(RScalar(prob)) ELSE Log1p(RScalar(Neg(prob)))
    IN  IF d.xi_ = Zero THEN Return(d, RMul(logProb, Neg(d.sigma_)))
        ELSE Return(d, RDiv(RMul(Expm1(RMul(logProb, Neg(d.xi_))), d.sigma_),
                            d.xi_))

\* std::abs(std::sqrt(xi_) * z) < 1.0e-8 for a Real z > 0: true for xi_ = 0,
\* false for xi_ < 0 (the square root is NaN), and for xi_ > 0 what the lower
\* end of the interval of z decides
SmallArgumentReal(z, xi) ==
    IF IsScalar(z) THEN Ge(xi, Zero) /\ SmallArgument(z.u, xi)
    ELSE IF xi = Zero THEN TRUE
    ELSE IF Lt(xi, Zero) THEN FALSE
    ELSE CASE RLoFin(z) /\ Ge(RLo(z), Zero) /\ ~SmallArgument(RLo(z), xi) -> FALSE

\* GeneralizedPareto::computeCDF at a Real; the term 0.5 * xi_ * z * z *
\* exp(-z) of the expansion is 0 for xi_ = 0
GeneralizedPareto_computeCDFReal(d, point) ==
    IF Len(point) # 1 THEN Throw("InvalidArgument", d)
    ELSE LET z == RDiv(point[1], d.sigma_)
         IN  IF RLe(z, Zero) THEN Return(d, RScalar(Zero))
             ELSE IF SmallArgumentReal(z, d.xi_)
             THEN IF d.xi_ = Zero THEN Return(d, RNeg(Expm1(RNeg(z))))
                  ELSE Return(d, RAtom(Opaque("-expm1(-z)-0.5*xi*z*z*exp(-z)",
                                              <<z, d.xi_>>)))
             ELSE IF Lt(d.xi_, Zero) /\ RGt(z, Div(Neg(One), d.xi_))
             THEN Return(d, RScalar(One))
             ELSE Return(d, RNeg(Expm1(RDiv(RNeg(Log1p(RMul(z, d.xi_))), d.xi_))))

\* GeneralizedPareto::computeComplementaryCDF at a Real; the term 0.5 * xi_ *
\* z * z of the expansion is 0 for xi_ = 0
GeneralizedPareto_computeComplementaryCDFReal(d, point) ==
    IF Len(point) # 1 THEN Throw("InvalidArgument", d)
    ELSE LET z == RDiv(point[1], d.sigma_)
         IN  IF RLe(z, Zero) THEN Return(d, RScalar(One))
             ELSE IF SmallArgumentReal(z, d.xi_)
             THEN IF d.xi_ = Zero THEN Return(d, Exp(RNeg(z)))
                  ELSE Return(d, RAtom(Opaque("exp(-z)*(1+0.5*xi*z*z)",
                                              <<z, d.xi_>>)))
             ELSE IF Lt(d.xi_, Zero) /\ RGt(z, Div(Neg(One), d.xi_))
             THEN Return(d, RScalar(Zero))
             ELSE Return(d, Exp(RDiv(RNeg(Log1p(RMul(z, d.xi_))), d.xi_)))

---------------------------------------------------------------------------
(* The inputs of the calls.                                                *)

Three == Sc(3, 0)

ArcsineValues == {Neg(One), Zero, One}
AlphaValues == {Zero, Half, One, Three}
BetaValues == {Zero, One}
GammaValues == {Zero, One}
SigmaValues == {Zero, One, Two}
XiValues == {Neg(Half), Zero, Half, One}
\* xi = -1e17 makes the upper bound -sigma/xi smaller than 1e-8/sqrt(-xi)
XiEvalValues == XiValues \cup {Sc(-1, 17)}

ArcsineXs == {Neg(Two), Neg(One), Zero, One, Two}
FrechetXs == {Neg(One), Zero, One, Two}
GeneralizedParetoXs == {Neg(One), Zero, Sc(2, -17), One, Sc(5, 0)}

\* the points of dimension n whose first coordinate is in xs; the other
\* coordinates, which no member reads, are 0
RECURSIVE Zeros(_)
Zeros(n) == IF n = 0 THEN <<>> ELSE <<Zero>> \o Zeros(n - 1)

Points(xs) == {<<>>} \cup {<<x>> \o Zeros(n - 1) : x \in xs, n \in 1..MaxDim}

Weights == 1..MaxWeight

BootstrapSizes == 1..MaxBootstrapSize
ConfidenceLevels == {Sc(9, -1), Sc(95, -2)}

\* parameter vectors of the right size, and of the sizes around it
ArcsineParameters ==
    {<<a, b>> : a \in ArcsineValues, b \in ArcsineValues}
        \cup {<<One>>, <<Zero, One, Two>>}
FrechetParameters ==
    {<<al, be, ga>> : al \in AlphaValues, be \in BetaValues, ga \in GammaValues}
        \cup {<<One, One>>, <<One, One, Zero, Zero>>}
GeneralizedParetoParameters ==
    {<<si, xi>> : si \in SigmaValues, xi \in XiValues}
        \cup {<<One>>, <<One, Zero, Zero>>}

\* what an advocate can hold for each class: any scalars, valid or not
ArcsineRecords ==
    {[kind |-> "Arcsine", weight_ |-> w, attrs |-> <<<<"a_", a>>, <<"b_", b>>>>] :
        w \in Weights, a \in ArcsineValues, b \in ArcsineValues}
FrechetRecords ==
    {[kind |-> "Frechet", weight_ |-> w,
      attrs |-> <<<<"alpha_", al>>, <<"beta_", be>>, <<"gamma_", ga>>>>] :
        w \in Weights, al \in AlphaValues, be \in BetaValues, ga \in GammaValues}
GeneralizedParetoRecords ==
    {[kind |-> "GeneralizedPareto", weight_ |-> w,
      attrs |-> <<<<"sigma_", si>>, <<"xi_", xi>>>>] :
        w \in Weights, si \in SigmaValues, xi \in XiValues}

---------------------------------------------------------------------------
(* The state machine of a distribution.                                    *)

sobolVars == <<handle, impl, sret>>
distVars == <<dist, ret>>

Status(o) == IF o.exc = "none" THEN "ok" ELSE o.exc

\* the call op(arg) was made on dist and ended as the outcome o
Call(op, arg, o) ==
    /\ dist' = o.d
    /\ ret' = [val |-> o.val, computed |-> o.computed, op |-> op, arg |-> arg,
               status |-> Status(o)]
    /\ UNCHANGED sobolVars

\* the constructor call op(arg) ended as the outcome o: the instance exists
\* only if the constructor returned
Construct(op, arg, o) ==
    /\ dist' = IF o.exc = "none" THEN o.d ELSE dist
    /\ ret' = [val |-> NoValue, computed |-> FALSE, op |-> op, arg |-> arg,
               status |-> Status(o)]
    /\ UNCHANGED sobolVars

NewArcsineDefault == Construct("Arcsine()", <<>>, Return(Arcsine_default, NoValue))

NewArcsine(a, b) == Construct("Arcsine", <<a, b>>, Arcsine(a, b))

NewFrechet(alpha, beta, gamma) ==
    Construct("Frechet", <<alpha, beta, gamma>>, Frechet(alpha, beta, gamma))

NewGeneralizedParetoDefault ==
    Construct("GeneralizedPareto()", <<>>, Return(GeneralizedPareto_default, NoValue))

NewGeneralizedPareto(sigma, xi) ==
    Construct("GeneralizedPareto", <<sigma, xi>>, GeneralizedPareto(sigma, xi))

IsArcsine == dist.kind = "Arcsine"
IsFrechet == dist.kind = "Frechet"
IsGeneralizedPareto == dist.kind = "GeneralizedPareto"

ArcsineSetParameter(p) == IsArcsine /\ Call("setParameter", p, Arcsine_setParameter(dist, p))
ArcsineSetA(a) == IsArcsine /\ Call("setA", <<a>>, Arcsine_setA(dist, a))
ArcsineSetB(b) == IsArcsine /\ Call("setB", <<b>>, Arcsine_setB(dist, b))
ArcsineMean ==
    IsArcsine /\ Call("mean", <<>>, getMean(dist, Arcsine_computeMean(dist)))
ArcsineCovariance ==
    IsArcsine /\ Call("covariance", <<>>,
                      getCovariance(dist, Arcsine_computeCovariance(dist)))
ArcsinePDF(point) == IsArcsine /\ Call("computePDF", point, Arcsine_computePDF(dist, point))
ArcsineCDF(point) == IsArcsine /\ Call("computeCDF", point, Arcsine_computeCDF(dist, point))
ArcsineSave ==
    IsArcsine /\ Call("save", AttributeValues(Arcsine_save(dist).attrs),
                      Return(dist, Arcsine_save(dist)))
ArcsineLoad(adv) ==
    IsArcsine /\ Call("load", AttributeValues(adv.attrs), Arcsine_load(dist, adv))

FrechetSetParameter(p) == IsFrechet /\ Call("setParameter", p, Frechet_setParameter(dist, p))
FrechetSetAlpha(v) == IsFrechet /\ Call("setAlpha", <<v>>, Frechet_setAlpha(dist, v))
FrechetSetBeta(v) == IsFrechet /\ Call("setBeta", <<v>>, Frechet_setBeta(dist, v))
FrechetSetGamma(v) == IsFrechet /\ Call("setGamma", <<v>>, Frechet_setGamma(dist, v))
FrechetMean ==
    IsFrechet /\ Call("mean", <<>>, getMean(dist, Frechet_computeMean(dist)))
FrechetCovariance ==
    IsFrechet /\ Call("covariance", <<>>,
                      getCovariance(dist, Frechet_computeCovariance(dist)))
FrechetPDF(point, outOfBounds) ==
    IsFrechet /\ Call("computePDF", point, Frechet_computePDF(dist, point, outOfBounds))
FrechetCDF(point) == IsFrechet /\ Call("computeCDF", point, Frechet_computeCDF(dist, point))
FrechetSave ==
    IsFrechet /\ Call("save", AttributeValues(Frechet_save(dist).attrs),
                      Return(dist, Frechet_save(dist)))
FrechetLoad(adv) ==
    IsFrechet /\ Call("load", AttributeValues(adv.attrs), Frechet_load(dist, adv))

GeneralizedParetoSetParameter(p) ==
    IsGeneralizedPareto /\ Call("setParameter", p, GeneralizedPareto_setParameter(dist, p))
GeneralizedParetoSetSigma(v) ==
    IsGeneralizedPareto /\ Call("setSigma", <<v>>, GeneralizedPareto_setSigma(dist, v))
GeneralizedParetoSetXi(v) ==
    IsGeneralizedPareto /\ Call("setXi", <<v>>, GeneralizedPareto_setXi(dist, v))
GeneralizedParetoMean ==
    IsGeneralizedPareto
        /\ Call("mean", <<>>, getMean(dist, GeneralizedPareto_computeMean(dist)))
GeneralizedParetoCovariance ==
    IsGeneralizedPareto
        /\ Call("covariance", <<>>,
                getCovariance(dist, GeneralizedPareto_computeCovariance(dist)))
GeneralizedParetoPDF(point) ==
    IsGeneralizedPareto
        /\ Call("computePDF", point, GeneralizedPareto_computePDF(dist, point))
GeneralizedParetoCDF(point) ==
    IsGeneralizedPareto
        /\ Call("computeCDF", point, GeneralizedPareto_computeCDF(dist, point))
GeneralizedParetoSave ==
    IsGeneralizedPareto
        /\ Call("save", AttributeValues(GeneralizedPareto_save(dist).attrs),
                Return(dist, GeneralizedPareto_save(dist)))
GeneralizedParetoLoad(adv) ==
    IsGeneralizedPareto
        /\ Call("load", AttributeValues(adv.attrs), GeneralizedPareto_load(dist, adv))

ArcsineLogPDF(point) ==
    IsArcsine /\ Call("computeLogPDF", point, Arcsine_computeLogPDF(dist, point))
FrechetLogPDF(point) ==
    IsFrechet /\ Call("computeLogPDF", point, Frechet_computeLogPDF(dist, point))
GeneralizedParetoLogPDF(point) ==
    IsGeneralizedPareto
        /\ Call("computeLogPDF", point, GeneralizedPareto_computeLogPDF(dist, point))

\* setWeight(w), of the base class
SetWeight(w) ==
    dist.kind # "none" /\ Call("setWeight", <<>>, Return(setWeight(dist, w), NoValue))

NoCall == [val |-> NoValue, computed |-> FALSE, op |-> "none", arg |-> <<>>,
           status |-> "ok"]

Init ==
    /\ dist = NoInstance
    /\ ret = NoCall
    /\ handle = [h \in Handles |-> 1]
    /\ impl = [i \in ImplIds |-> IF i = 1 THEN SobolIndicesAlgorithmImplementation
                                 ELSE Freed]
    /\ sret = [val |-> <<>>, h |-> "A", op |-> "none", shared |-> TRUE]

\* constructors, setters and moment accessors
Next ==
    \/ NewArcsineDefault
    \/ \E a \in ArcsineValues, b \in ArcsineValues : NewArcsine(a, b)
    \/ \E al \in AlphaValues, be \in BetaValues, ga \in GammaValues : NewFrechet(al, be, ga)
    \/ NewGeneralizedParetoDefault
    \/ \E si \in SigmaValues, xi \in XiValues : NewGeneralizedPareto(si, xi)
    \/ \E p \in ArcsineParameters : ArcsineSetParameter(p)
    \/ \E a \in ArcsineValues : ArcsineSetA(a)
    \/ \E b \in ArcsineValues : ArcsineSetB(b)
    \/ ArcsineMean
    \/ ArcsineCovariance
    \/ \E p \in FrechetParameters : FrechetSetParameter(p)
    \/ \E v \in AlphaValues : FrechetSetAlpha(v)
    \/ \E v \in BetaValues : FrechetSetBeta(v)
    \/ \E v \in GammaValues : FrechetSetGamma(v)
    \/ FrechetMean
    \/ FrechetCovariance
    \/ \E p \in GeneralizedParetoParameters : GeneralizedParetoSetParameter(p)
    \/ \E v \in SigmaValues : GeneralizedParetoSetSigma(v)
    \/ \E v \in XiValues : GeneralizedParetoSetXi(v)
    \/ GeneralizedParetoMean
    \/ GeneralizedParetoCovariance
    \/ \E w \in Weights : SetWeight(w)

\* constructors and the evaluation of the density and of the CDF
NextEval ==
    \/ NewArcsineDefault
    \/ \E a \in ArcsineValues, b \in ArcsineValues : NewArcsine(a, b)
    \/ \E al \in AlphaValues, be \in BetaValues, ga \in GammaValues : NewFrechet(al, be, ga)
    \/ NewGeneralizedParetoDefault
    \/ \E si \in SigmaValues, xi \in XiEvalValues : NewGeneralizedPareto(si, xi)
    \/ \E point \in Points(ArcsineXs) : ArcsinePDF(point)
    \/ \E point \in Points(ArcsineXs) : ArcsineCDF(point)
    \/ \E point \in Points(FrechetXs), outOfBounds \in FrechetXs :
           FrechetPDF(point, outOfBounds)
    \/ \E point \in Points(FrechetXs) : FrechetCDF(point)
    \/ \E point \in Points(GeneralizedParetoXs) : GeneralizedParetoPDF(point)
    \/ \E point \in Points(GeneralizedParetoXs) : GeneralizedParetoCDF(point)
    \/ \E point \in Points(ArcsineXs) : ArcsineLogPDF(point)
    \/ \E point \in Points(FrechetXs) : FrechetLogPDF(point)
    \/ \E point \in Points(GeneralizedParetoXs) : GeneralizedParetoLogPDF(point)

\* constructors, save and load
NextPersist ==
    \/ NewArcsineDefault
    \/ \E a \in ArcsineValues, b \in ArcsineValues : NewArcsine(a, b)
    \/ \E al \in AlphaValues, be \in BetaValues, ga \in GammaValues : NewFrechet(al, be, ga)
    \/ NewGeneralizedParetoDefault
    \/ \E si \in SigmaValues, xi \in XiValues : NewGeneralizedPareto(si, xi)
    \/ ArcsineSave
    \/ \E adv \in ArcsineRecords : ArcsineLoad(adv)
    \/ FrechetSave
    \/ \E adv \in FrechetRecords : FrechetLoad(adv)
    \/ GeneralizedParetoSave
    \/ \E adv \in GeneralizedParetoRecords : GeneralizedParetoLoad(adv)
    \/ \E w \in Weights : SetWeight(w)

Spec == Init /\ [][Next]_vars

SpecEval == Init /\ [][NextEval]_vars

SpecPersist == Init /\ [][NextPersist]_vars

---------------------------------------------------------------------------
(* The state machine of two SobolIndicesAlgorithm handles, A and a copy B  *)
(* of A.  sret records the last call: the handle it was made on, the       *)
(* argument or the returned value, and whether the handle shared its       *)
(* implementation when the call was made.                                  *)

SobolCall(op, h, val, c) ==
    /\ handle' = c.handle
    /\ impl' = Release(c.handle, c.impl)
    /\ sret' = [val |-> <<val>>, h |-> h, op |-> op, shared |-> ~unique(handle, h)]
    /\ UNCHANGED distVars

SobolSetBootstrapSize(h, n) ==
    SobolCall("setBootstrapSize", h, n, setBootstrapSize(handle, impl, h, n))

SobolSetConfidenceLevel(h, l) ==
    SobolCall("setConfidenceLevel", h, l, setConfidenceLevel(handle, impl, h, l))

SobolSetUseAsymptoticDistribution(h, b) ==
    SobolCall("setUseAsymptoticDistribution", h, b,
              setUseAsymptoticDistribution(handle, impl, h, b))

SobolGetBootstrapSize(h) ==
    SobolCall("getBootstrapSize", h, getBootstrapSize(handle, impl, h),
              [handle |-> handle, impl |-> impl])

SobolGetConfidenceLevel(h) ==
    SobolCall("getConfidenceLevel", h, getConfidenceLevel(handle, impl, h),
              [handle |-> handle, impl |-> impl])

SobolGetUseAsymptoticDistribution(h) ==
    SobolCall("getUseAsymptoticDistribution", h,
              getUseAsymptoticDistribution(handle, impl, h),
              [handle |-> handle, impl |-> impl])

\* the const accessors that return getImplementation()->accessor(): the
\* index getters, their intervals and distributions, draw and the string
\* converters
Accessors ==
    {"getFirstOrderIndices", "getFirstOrderIndicesInterval", "getSecondOrderIndices",
     "getTotalOrderIndices", "getTotalOrderIndicesInterval",
     "getAggregatedFirstOrderIndices", "getAggregatedTotalOrderIndices", "draw",
     "getFirstOrderIndicesDistribution", "getTotalOrderIndicesDistribution",
     "__repr__", "__str__"}

\* what the implementation of h returns for the accessor op
SobolAccessor(op, h) ==
    SobolCall(op, h, Term(op, <<impl[handle[h]]>>), [handle |-> handle, impl |-> impl])

\* h = g: the handle h now shares the implementation of g
SobolAssign(h, g) ==
    SobolCall("=", h, g, [handle |-> [handle EXCEPT ![h] = handle[g]], impl |-> impl])

NextSobol ==
    \/ \E h \in Handles, n \in BootstrapSizes : SobolSetBootstrapSize(h, n)
    \/ \E h \in Handles, l \in ConfidenceLevels : SobolSetConfidenceLevel(h, l)
    \/ \E h \in Handles, b \in BOOLEAN : SobolSetUseAsymptoticDistribution(h, b)
    \/ \E h \in Handles : SobolGetBootstrapSize(h)
    \/ \E h \in Handles : SobolGetConfidenceLevel(h)
    \/ \E h \in Handles : SobolGetUseAsymptoticDistribution(h)
    \/ \E h \in Handles, op \in Accessors : SobolAccessor(op, h)
    \/ \E h \in Handles : \E g \in Handles \ {h} : SobolAssign(h, g)

SpecSobol == Init /\ [][NextSobol]_vars

---------------------------------------------------------------------------
(* Helpers of the properties.                                              *)

Arcsine_getParameter(d) == <<d.a_, d.b_>>
Frechet_getParameter(d) == <<d.alpha_, d.beta_, d.gamma_>>
GeneralizedPareto_getParameter(d) == <<d.sigma_, d.xi_>>

getParameter(d) ==
    CASE d.kind = "Arcsine" -> Arcsine_getParameter(d)
      [] d.kind = "Frechet" -> Frechet_getParameter(d)
      [] d.kind = "GeneralizedPareto" -> GeneralizedPareto_getParameter(d)

\* the domain of the parameter vector of each class, as the specification
\* states it
InDomain(kind, p) ==
    CASE kind = "Arcsine" -> Len(p) = 2 /\ Lt(p[1], p[2])
      [] kind = "Frechet" -> Len(p) = 3 /\ Gt(p[1], Zero) /\ Gt(p[2], Zero)
      [] kind = "GeneralizedPareto" -> Len(p) = 2 /\ Gt(p[1], Zero)

computeMean(d) ==
    CASE d.kind = "Arcsine" -> Arcsine_computeMean(d)
      [] d.kind = "Frechet" -> Frechet_computeMean(d)
      [] d.kind = "GeneralizedPareto" -> GeneralizedPareto_computeMean(d)

computeCovariance(d) ==
    CASE d.kind = "Arcsine" -> Arcsine_computeCovariance(d)
      [] d.kind = "Frechet" -> Frechet_computeCovariance(d)
      [] d.kind = "GeneralizedPareto" -> GeneralizedPareto_computeCovariance(d)

\* the mean and the covariance of the current parameters, NoValue where the
\* computation throws
MeanOf(d) ==
    LET o == computeMean(d) IN IF o.exc = "none" THEN o.d.mean_ ELSE NoValue

CovarianceOf(d) ==
    LET o == computeCovariance(d) IN IF o.exc = "none" THEN o.d.covariance_ ELSE NoValue

Exists == dist.kind # "none"

---------------------------------------------------------------------------
(* C1: setParameter(p) is atomic.  A call whose vector has the wrong size  *)
(* or a component outside its domain ends with InvalidArgument, and every  *)
(* setParameter call that throws leaves the whole instance (parameters,    *)
(* range, weight, cache flags and cached values) as it was.                *)
C1_SetParameterAtomic ==
    [][ret'.op = "setParameter" =>
          /\ ~InDomain(dist.kind, ret'.arg) => ret'.status = "InvalidArgument"
          /\ ret'.status # "ok" => dist' = dist]_vars

\* a Frechet with a cached mean and weight 2 refused a vector whose alpha is
\* valid and new, and whose beta is invalid
C1_Witness ==
    /\ IsFrechet /\ ret.op = "setParameter" /\ ret.status = "InvalidArgument"
    /\ Len(ret.arg) = 3 /\ Gt(ret.arg[1], Zero) /\ ~Gt(ret.arg[2], Zero)
    /\ ret.arg[1] # dist.alpha_
    /\ dist.isAlreadyComputedMean_ /\ dist.weight_ = 2

(* C2: no stale moment.  Whenever a cache flag is set the cached value is  *)
(* the one the current parameters give, and every mean() or covariance()   *)
(* that returns, returns the value of the current parameters.              *)
C2_NoStaleMoment ==
    Exists =>
      /\ dist.isAlreadyComputedMean_ => dist.mean_ = MeanOf(dist)
      /\ dist.isAlreadyComputedCovariance_ => dist.covariance_ = CovarianceOf(dist)
      /\ (ret.op = "mean" /\ ret.status = "ok") => ret.val = MeanOf(dist)
      /\ (ret.op = "covariance" /\ ret.status = "ok") => ret.val = CovarianceOf(dist)

\* mean() has just recomputed the mean of an instance whose covariance was
\* cached for other parameters and invalidated since
C2_Witness ==
    /\ Exists /\ ret.op = "mean" /\ ret.status = "ok" /\ ret.computed
    /\ ~dist.isAlreadyComputedCovariance_
    /\ dist.covariance_ # Unset
    /\ dist.covariance_ # CovarianceOf(dist)

(* C3: the stored range is the range of the current parameters in every    *)
(* state: Arcsine [a_, b_]; Frechet lower bound gamma_, finite, and upper  *)
(* bound not finite; GeneralizedPareto lower bound 0, finite, and upper    *)
(* bound finite, then equal to -sigma_/xi_, exactly when xi_ < 0.          *)
C3_RangeCurrent ==
    /\ IsArcsine => dist.range_ = Interval(Num(dist.a_), Num(dist.b_), TRUE, TRUE)
    /\ IsFrechet =>
         /\ dist.range_.lowerBound = Num(dist.gamma_)
         /\ dist.range_.finiteLowerBound /\ ~dist.range_.finiteUpperBound
         /\ dist.range_.upperBound.args = Frechet_getParameter(dist)
    /\ IsGeneralizedPareto =>
         /\ dist.range_.lowerBound = Num(Zero) /\ dist.range_.finiteLowerBound
         /\ dist.range_.finiteUpperBound <=> Lt(dist.xi_, Zero)
         /\ Lt(dist.xi_, Zero) =>
                dist.range_.upperBound = Num(Div(Neg(dist.sigma_), dist.xi_))
         /\ ~Lt(dist.xi_, Zero) =>
                dist.range_.upperBound.args = GeneralizedPareto_getParameter(dist)

\* setXi has just moved a GeneralizedPareto to xi_ < 0, and setSigma an
\* instance with xi_ < 0 to another sigma_
C3_Witness ==
    /\ IsGeneralizedPareto /\ ret.op \in {"setXi", "setSigma"} /\ ret.status = "ok"
    /\ Lt(dist.xi_, Zero) /\ ret.arg[1] \in {dist.xi_, dist.sigma_}
    /\ dist.range_.finiteUpperBound

\* what the three getters of the handle g return
Getters(hd, im, g) ==
    <<getBootstrapSize(hd, im, g), getConfidenceLevel(hd, im, g),
      getUseAsymptoticDistribution(hd, im, g)>>

Setters == {"setBootstrapSize", "setConfidenceLevel", "setUseAsymptoticDistribution"}

\* what the getter that matches the setter op returns on the handle g
GetterOf(op, hd, im, g) ==
    CASE op = "setBootstrapSize" -> getBootstrapSize(hd, im, g)
      [] op = "setConfidenceLevel" -> getConfidenceLevel(hd, im, g)
      [] op = "setUseAsymptoticDistribution" ->
             getUseAsymptoticDistribution(hd, im, g)

(* C4: copy-on-write.  Every setter call on a handle makes the matching    *)
(* getter of that handle return the value set, and leaves the three        *)
(* getters of every other handle returning what they returned before the   *)
(* call, whether or not the handles shared an implementation.              *)
C4_CopyOnWrite ==
    [][sret'.op \in Setters =>
          /\ GetterOf(sret'.op, handle', impl', sret'.h) = sret'.val[1]
          /\ \A g \in Handles \ {sret'.h} :
                 Getters(handle', impl', g) = Getters(handle, impl, g)]_vars

\* B shared the implementation of A when setBootstrapSize was called on it,
\* and the two handles now return different bootstrap sizes
C4_Witness ==
    /\ sret.op = "setBootstrapSize" /\ sret.h = "B" /\ sret.shared
    /\ handle["A"] # handle["B"]
    /\ getBootstrapSize(handle, impl, "B") = sret.val[1]
    /\ getBootstrapSize(handle, impl, "A") # getBootstrapSize(handle, impl, "B")

(* C5: mean() of a Frechet with alpha <= 1 ends with NotDefined.           *)
C5_FrechetMeanNotDefined ==
    (IsFrechet /\ ret.op = "mean" /\ ~Gt(dist.alpha_, One))
        => ret.status = "NotDefined"

Constructors == {"Arcsine", "Frechet", "GeneralizedPareto"}

\* the range of the parameter vector p of a class, as C3 states it
RangeAgrees(kind, p, range) ==
    CASE kind = "Arcsine" -> range = Interval(Num(p[1]), Num(p[2]), TRUE, TRUE)
      [] kind = "Frechet" ->
             /\ range.lowerBound = Num(p[3])
             /\ range.finiteLowerBound /\ ~range.finiteUpperBound
      [] kind = "GeneralizedPareto" ->
             /\ range.lowerBound = Num(Zero) /\ range.finiteLowerBound
             /\ range.finiteUpperBound <=> Lt(p[2], Zero)
             /\ Lt(p[2], Zero) => range.upperBound = Num(Div(Neg(p[1]), p[2]))

(* C6: the parameter constructors validate.  A constructor call whose      *)
(* arguments are outside the domain ends with InvalidArgument and no       *)
(* instance comes out of it (what was observable before still is, and      *)
(* nothing else); a call whose arguments are inside the domain returns an  *)
(* instance of the class with these parameters and their range.            *)
C6_ConstructorsValidate ==
    [][ret'.op \in Constructors =>
          IF InDomain(ret'.op, ret'.arg)
          THEN /\ ret'.status = "ok"
               /\ dist'.kind = ret'.op
               /\ getParameter(dist') = ret'.arg
               /\ RangeAgrees(ret'.op, ret'.arg, dist'.range_)
          ELSE /\ ret'.status = "InvalidArgument"
               /\ dist' = dist]_vars

\* Arcsine(a, b) with a >= b has thrown and there is still no instance
C6_Witness ==
    /\ dist = NoInstance
    /\ ret.op = "Arcsine" /\ ret.status = "InvalidArgument"
    /\ Ge(ret.arg[1], ret.arg[2])

(* C7: computePDF ends with InvalidArgument for every point whose          *)
(* dimension is not 1.                                                     *)
C7_PDFChecksDimension ==
    (ret.op = "computePDF" /\ Len(ret.arg) # 1) => ret.status = "InvalidArgument"

\* x is below the finite lower bound / above the finite upper bound of range
Below(x, range) == range.finiteLowerBound /\ Lt(x, range.lowerBound.args[1])
Above(x, range) == range.finiteUpperBound /\ Gt(x, range.upperBound.args[1])

(* C8: for a point of dimension 1 outside the stored range computePDF      *)
(* returns exactly 0, and computeCDF returns exactly 0 below the lower     *)
(* bound and exactly 1 above the upper bound.                              *)
C8_OutsideRange ==
    (Exists /\ ret.op \in {"computePDF", "computeCDF"} /\ Len(ret.arg) = 1) =>
        LET x == ret.arg[1]
        IN  /\ (ret.op = "computePDF" /\ (Below(x, dist.range_) \/ Above(x, dist.range_)))
                  => (ret.status = "ok" /\ ret.val = Num(Zero))
            /\ (ret.op = "computeCDF" /\ Below(x, dist.range_))
                  => (ret.status = "ok" /\ ret.val = Num(Zero))
            /\ (ret.op = "computeCDF" /\ Above(x, dist.range_))
                  => (ret.status = "ok" /\ ret.val = Num(One))

(* C9: the moments are cached.  A mean() that returns sets                 *)
(* isAlreadyComputedMean_ and mean_ is what it returned; mean() and        *)
(* covariance() keep a set flag and the cached value; a mean() called      *)
(* while the flag is set returns mean_ without running computeMean; so a   *)
(* mean() that follows a mean() that returned, returns the same value,     *)
(* and computeMean does not run again.  Likewise for covariance().         *)
C9_MomentCached ==
    [][/\ (ret'.op = "mean" /\ ret'.status = "ok")
             => (dist'.isAlreadyComputedMean_ /\ dist'.mean_ = ret'.val)
       /\ (ret'.op = "covariance" /\ ret'.status = "ok")
             => (dist'.isAlreadyComputedCovariance_ /\ dist'.covariance_ = ret'.val)
       /\ (ret'.op \in {"mean", "covariance"} /\ dist.isAlreadyComputedMean_)
             => (dist'.isAlreadyComputedMean_ /\ dist'.mean_ = dist.mean_)
       /\ (ret'.op \in {"mean", "covariance"} /\ dist.isAlreadyComputedCovariance_)
             => (dist'.isAlreadyComputedCovariance_
                   /\ dist'.covariance_ = dist.covariance_)
       /\ (ret'.op = "mean" /\ dist.isAlreadyComputedMean_)
             => (ret'.status = "ok" /\ ret'.val = dist.mean_ /\ ~ret'.computed)
       /\ (ret'.op = "covariance" /\ dist.isAlreadyComputedCovariance_)
             => (ret'.status = "ok" /\ ret'.val = dist.covariance_ /\ ~ret'.computed)
       /\ (ret.op = "mean" /\ ret.status = "ok" /\ ret'.op = "mean")
             => (ret'.status = "ok" /\ ret'.val = ret.val /\ ~ret'.computed)
       /\ (ret.op = "covariance" /\ ret.status = "ok" /\ ret'.op = "covariance")
             => (ret'.status = "ok" /\ ret'.val = ret.val /\ ~ret'.computed)]_vars

\* mean() has returned the cached mean without running computeMean, on an
\* instance whose covariance is cached too
C9_Witness ==
    /\ Exists /\ ret.op = "mean" /\ ret.status = "ok" /\ ~ret.computed
    /\ ret.val = dist.mean_ /\ ret.val = MeanOf(dist)
    /\ dist.isAlreadyComputedCovariance_

(* C10: load validates.  A load of a record whose parameters are outside   *)
(* the domain of the class ends with Deserialization, and the parameters   *)
(* of an instance are inside the domain in every state.                    *)
C10_LoadValidates ==
    /\ (Exists /\ ret.op = "load" /\ ~InDomain(dist.kind, ret.arg))
           => ret.status = "Deserialization"
    /\ Exists => InDomain(dist.kind, getParameter(dist))

\* the value v is outside the domain of the named setter op of the instance d
SetterRefuses(d, op, v) ==
    CASE op = "setAlpha" -> ~Gt(v, Zero)
      [] op = "setBeta" -> ~Gt(v, Zero)
      [] op = "setSigma" -> ~Gt(v, Zero)
      [] op = "setA" -> Ge(v, d.b_)
      [] op = "setB" -> Ge(d.a_, v)
      [] OTHER -> FALSE

NamedSetters ==
    {"setAlpha", "setBeta", "setGamma", "setSigma", "setXi", "setA", "setB"}

(* C11: a named setter is atomic.  A call with a value outside the domain  *)
(* ends with InvalidArgument, and every named setter call that throws      *)
(* leaves the whole instance (parameters, range, weight, cache flags and   *)
(* cached values) as it was.                                               *)
C11_SetterAtomic ==
    [][ret'.op \in NamedSetters =>
          /\ SetterRefuses(dist, ret'.op, ret'.arg[1]) => ret'.status = "InvalidArgument"
          /\ ret'.status # "ok" => dist' = dist]_vars

\* setBeta(v) with v <= 0 was refused on a Frechet whose mean and covariance
\* are cached
C11_Witness ==
    /\ IsFrechet /\ ret.op = "setBeta" /\ ret.status = "InvalidArgument"
    /\ ~Gt(ret.arg[1], Zero)
    /\ dist.isAlreadyComputedMean_ /\ dist.isAlreadyComputedCovariance_

---------------------------------------------------------------------------
(* The state machine of the quantile: computeScalarQuantile(prob, tail),   *)
(* and the CDF and the complementary CDF evaluated at the quantile that    *)
(* the last call returned.                                                 *)

\* probabilities inside, at the ends of and outside [0, 1]
ProbValues ==
    {Neg(Half), Zero, Sc(25, -2), Half, Sc(75, -2), One, Sc(15, -1)}

\* values of alpha whose inverse is a finite decimal
QuantileAlphaValues == {Zero, Half, One, Two}

ArcsineQuantile(prob, tail) ==
    IsArcsine /\ Call("computeScalarQuantile", <<prob, tail>>,
                      Arcsine_computeScalarQuantile(dist, prob, tail))
FrechetQuantile(prob, tail) ==
    IsFrechet /\ Call("computeScalarQuantile", <<prob, tail>>,
                      Frechet_computeScalarQuantile(dist, prob, tail))
GeneralizedParetoQuantile(prob, tail) ==
    IsGeneralizedPareto
        /\ Call("computeScalarQuantile", <<prob, tail>>,
                GeneralizedPareto_computeScalarQuantile(dist, prob, tail))

\* the last call returned the quantile of a probability inside ]0, 1[
QuantileReturned ==
    /\ ret.op = "computeScalarQuantile" /\ ret.status = "ok"
    /\ Gt(ret.arg[1], Zero) /\ Lt(ret.arg[1], One)

ArcsineCDFOfQuantile ==
    IsArcsine /\ QuantileReturned
        /\ Call("computeCDF", <<ret.val>>, Arcsine_computeCDFReal(dist, <<ret.val>>))
ArcsineComplementaryCDFOfQuantile ==
    IsArcsine /\ QuantileReturned
        /\ Call("computeComplementaryCDF", <<ret.val>>,
                Arcsine_computeComplementaryCDFReal(dist, <<ret.val>>))
FrechetCDFOfQuantile ==
    IsFrechet /\ QuantileReturned
        /\ Call("computeCDF", <<ret.val>>, Frechet_computeCDFReal(dist, <<ret.val>>))
FrechetComplementaryCDFOfQuantile ==
    IsFrechet /\ QuantileReturned
        /\ Call("computeComplementaryCDF", <<ret.val>>,
                Frechet_computeComplementaryCDFReal(dist, <<ret.val>>))
GeneralizedParetoCDFOfQuantile ==
    IsGeneralizedPareto /\ QuantileReturned
        /\ Call("computeCDF", <<ret.val>>,
                GeneralizedPareto_computeCDFReal(dist, <<ret.val>>))
GeneralizedParetoComplementaryCDFOfQuantile ==
    IsGeneralizedPareto /\ QuantileReturned
        /\ Call("computeComplementaryCDF", <<ret.val>>,
                GeneralizedPareto_computeComplementaryCDFReal(dist, <<ret.val>>))

NextQuantile ==
    \/ NewArcsineDefault
    \/ \E a \in ArcsineValues, b \in ArcsineValues : NewArcsine(a, b)
    \/ \E al \in QuantileAlphaValues, be \in BetaValues, ga \in GammaValues :
           NewFrechet(al, be, ga)
    \/ NewGeneralizedParetoDefault
    \/ \E si \in SigmaValues, xi \in XiValues : NewGeneralizedPareto(si, xi)
    \/ \E prob \in ProbValues, tail \in BOOLEAN : ArcsineQuantile(prob, tail)
    \/ \E prob \in ProbValues, tail \in BOOLEAN : FrechetQuantile(prob, tail)
    \/ \E prob \in ProbValues, tail \in BOOLEAN : GeneralizedParetoQuantile(prob, tail)
    \/ ArcsineCDFOfQuantile
    \/ ArcsineComplementaryCDFOfQuantile
    \/ FrechetCDFOfQuantile
    \/ FrechetComplementaryCDFOfQuantile
    \/ GeneralizedParetoCDFOfQuantile
    \/ GeneralizedParetoComplementaryCDFOfQuantile

SpecQuantile == Init /\ [][NextQuantile]_vars

(* C12: computeScalarQuantile(prob, tail) ends with InvalidArgument for    *)
(* every prob outside [0, 1], and returns only for prob in [0, 1].         *)
C12_QuantileChecksProbability ==
    ret.op = "computeScalarQuantile" =>
        (ret.status = "InvalidArgument"
            <=> (Lt(ret.arg[1], Zero) \/ Gt(ret.arg[1], One)))

(* C13: the quantile inverts the CDF.  For p in ]0, 1[, computeCDF at      *)
(* computeScalarQuantile(p) is p and computeComplementaryCDF at            *)
(* computeScalarQuantile(p, tail = true) is p; the quantile of 0.5 of      *)
(* Arcsine(-1, 1) is 0 (and so its CDF at 0 is 0.5).                       *)
C13_QuantileInvertsCDF ==
    [][/\ (/\ ret.op = "computeScalarQuantile"
           /\ \/ ret'.op = "computeCDF" /\ ~ret.arg[2]
              \/ ret'.op = "computeComplementaryCDF" /\ ret.arg[2])
             => (/\ ret'.status = "ok"
                 /\ ret'.arg = <<ret.val>>
                 /\ ret'.val = RScalar(ret.arg[1]))
       /\ (/\ ret'.op = "computeScalarQuantile" /\ ret'.arg[1] = Half
           /\ IsArcsine /\ dist.a_ = Neg(One) /\ dist.b_ = One)
             => ret'.val = RScalar(Zero)]_vars

\* the complementary CDF of a GeneralizedPareto with xi_ < 0 has returned
\* 0.25 at the quantile of 0.25 in the upper tail, which is not a scalar
C13_Witness ==
    /\ IsGeneralizedPareto /\ Lt(dist.xi_, Zero)
    /\ ret.op = "computeComplementaryCDF" /\ ret.status = "ok"
    /\ ~IsScalar(ret.arg[1])
    /\ ret.val = RScalar(Sc(25, -2))

\* computePDF and computeLogPDF of the class of the instance d at a point
\* of dimension 1
computePDF(d, point) ==
    CASE d.kind = "Arcsine" -> Arcsine_computePDF(d, point)
      [] d.kind = "Frechet" -> Frechet_computePDF(d, point, Zero)
      [] d.kind = "GeneralizedPareto" -> GeneralizedPareto_computePDF(d, point)

computeLogPDF(d, point) ==
    CASE d.kind = "Arcsine" -> Arcsine_computeLogPDF(d, point)
      [] d.kind = "Frechet" -> Frechet_computeLogPDF(d, point)
      [] d.kind = "GeneralizedPareto" -> GeneralizedPareto_computeLogPDF(d, point)

---------------------------------------------------------------------------
(* RankMCovarianceModel.  A point is a sequence of scalars, a basis is a   *)
(* record of its name and dimensions, a function of the basis is the pair  *)
(* of the basis and its index, and a covariance matrix is the sequence of  *)
(* its rows.                                                               *)

\* an outcome that ends with the exception exc, whose message is msg
ThrowMessage(exc, d, msg) == Outcome(d, exc, msg, FALSE)

Max(a, b) == IF a >= b THEN a ELSE b

\* CovarianceModelImplementation(spatialDimension): the base part of a model;
\* the output dimension of the model is 1
CovarianceModelImplementation(spatialDimension) ==
    [spatialDimension_ |-> spatialDimension, dimension_ |-> 1,
     scale_ |-> spatialDimension, amplitude_ |-> 1]

\* a new RankMCovarianceModel: the base part and the members in the order of
\* the initialiser list; functions_ is empty until setBasis
RankMCovarianceModelInstance(base, variance, covariance) ==
    [kind |-> "RankMCovarianceModel", covariance_ |-> covariance,
     spatialDimension_ |-> base.spatialDimension_, dimension_ |-> base.dimension_,
     scale_ |-> base.scale_, amplitude_ |-> base.amplitude_,
     variance_ |-> variance,
     basis_ |-> [name |-> "none", inputDimension |-> 0, outputDimension |-> 0],
     functions_ |-> <<>>]

\* ConstantBasisFactory(1).build()
ConstantBasis == [name |-> "constant", inputDimension |-> 1, outputDimension |-> 1]

\* setBasis(basis): one function of the basis per coefficient
RankMCovarianceModel_setBasis(d, basis) ==
    LET size == Max(Len(d.variance_), Len(d.covariance_))
    IN  IF size = 0 THEN Throw("InvalidArgument", d)
        ELSE Return([d EXCEPT !.functions_ = [i \in 1..size |-> <<basis.name, i - 1>>],
                              !.scale_ = basis.inputDimension,
                              !.amplitude_ = basis.outputDimension,
                              !.basis_ = basis], NoValue)

\* RankMCovarianceModel(spatialDimension)
RankMCovarianceModel_default(spatialDimension) ==
    RankMCovarianceModel_setBasis(
        RankMCovarianceModelInstance(CovarianceModelImplementation(spatialDimension),
                                     <<One>>, <<>>),
        ConstantBasis)

\* RankMCovarianceModel(variance, basis)
RankMCovarianceModel_variance(variance, basis) ==
    IF Len(variance) = 0 THEN Throw("InvalidArgument", NoInstance)
    ELSE RankMCovarianceModel_setBasis(
             RankMCovarianceModelInstance(CovarianceModelImplementation(1),
                                          variance, <<>>),
             basis)

\* CovarianceMatrix::isDiagonal
isDiagonal(m) == \A i \in 1..Len(m), j \in 1..Len(m) : i # j => m[i][j] = Zero

\* a variant of the covariance constructor that keeps every covariance as a
\* matrix, diagonal or not: C23_OneCoefficientStore rejects it
RankMCovarianceModel_covariance_AlwaysMatrix(covariance, basis) ==
    IF Len(covariance) = 0 THEN Throw("InvalidArgument", NoInstance)
    ELSE RankMCovarianceModel_setBasis(
             RankMCovarianceModelInstance(CovarianceModelImplementation(1),
                                          <<>>, covariance),
             basis)

\* RankMCovarianceModel(covariance, basis): a diagonal covariance is kept as
\* the vector of its diagonal
RankMCovarianceModel_covariance(covariance, basis) ==
    IF Len(covariance) = 0 THEN Throw("InvalidArgument", NoInstance)
    ELSE RankMCovarianceModel_setBasis(
             IF isDiagonal(covariance)
             THEN RankMCovarianceModelInstance(CovarianceModelImplementation(1),
                      [i \in 1..Len(covariance) |-> covariance[i][i]], <<>>)
             ELSE RankMCovarianceModelInstance(CovarianceModelImplementation(1),
                      <<>>, covariance),
             basis)

\* operator()(s, t): the covariance matrix C(s, t)
RankMCovarianceModel_call(d, s, t) ==
    IF Len(s) # d.spatialDimension_
    THEN ThrowMessage("InvalidArgument", d, Term("the point s has dimension", <<Len(s)>>))
    ELSE IF Len(t) # d.spatialDimension_
    THEN ThrowMessage("InvalidArgument", d, Term("the point t has dimension", <<Len(t)>>))
    ELSE Outcome(d, "none", Term("CovarianceMatrix", <<d.dimension_, s, t>>),
                 Len(d.functions_) > 0)

\* a NumericalSample of size points of the given dimension
NumericalSample(size, dimension) == [size |-> size, dimension |-> dimension]

\* a variant of discretize that discretizes the functions over the vertices
\* before it looks at their dimension: C24_DimensionCheckedFirst rejects it
RankMCovarianceModel_discretize_CheckLast(d, vertices) ==
    IF vertices.dimension # d.spatialDimension_
    THEN Outcome(d, "InvalidArgument",
                 Term("the given sample has a dimension", <<vertices.dimension>>),
                 Len(d.functions_) > 0)
    ELSE Outcome(d, "none",
                 Term("CovarianceMatrix", <<vertices.size * d.dimension_, vertices>>),
                 Len(d.functions_) > 0)

\* discretize(vertices): the covariance matrix over the vertices; the
\* functions are evaluated over the vertices once the dimension was checked
RankMCovarianceModel_discretize(d, vertices) ==
    IF vertices.dimension # d.spatialDimension_
    THEN ThrowMessage("InvalidArgument", d,
                      Term("the given sample has a dimension", <<vertices.dimension>>))
    ELSE Outcome(d, "none",
                 Term("CovarianceMatrix", <<vertices.size * d.dimension_, vertices>>),
                 Len(d.functions_) > 0)

\* a variant of partialGradient that checks t before s:
\* C15_PartialGradientNeverReturns rejects it
RankMCovarianceModel_partialGradient_TFirst(d, s, t) ==
    IF Len(t) # d.spatialDimension_
    THEN ThrowMessage("InvalidArgument", d, Term("the point t has dimension", <<Len(t)>>))
    ELSE IF Len(s) # d.spatialDimension_
    THEN ThrowMessage("InvalidArgument", d, Term("the point s has dimension", <<Len(s)>>))
    ELSE Throw("NotYetImplemented", d)

\* partialGradient(s, t)
RankMCovarianceModel_partialGradient(d, s, t) ==
    IF Len(s) # d.spatialDimension_
    THEN ThrowMessage("InvalidArgument", d, Term("the point s has dimension", <<Len(s)>>))
    ELSE IF Len(t) # d.spatialDimension_
    THEN ThrowMessage("InvalidArgument", d, Term("the point t has dimension", <<Len(t)>>))
    ELSE Throw("NotYetImplemented", d)

\* the inputs of the covariance model
SpatialDimensions == 1..MaxDim
CovariancePoints == UNION {[1..n -> {Zero, One}] : n \in 0..MaxDim}
Variances == {<<>>, <<One>>, <<One, Two>>}
Covariances == {<<>>, <<<<Two>>>>, <<<<One, Zero>>, <<Zero, Two>>>>,
                <<<<Two, One>>, <<One, Two>>>>}
Bases == {ConstantBasis,
          [name |-> "linear", inputDimension |-> 2, outputDimension |-> 1]}

IsRankMCovarianceModel == dist.kind = "RankMCovarianceModel"

NewRankMCovarianceModelDefault(spatialDimension) ==
    Construct("RankMCovarianceModel(spatialDimension)", <<spatialDimension>>,
              RankMCovarianceModel_default(spatialDimension))
NewRankMCovarianceModelVariance(variance, basis) ==
    Construct("RankMCovarianceModel(variance, basis)", <<variance, basis>>,
              RankMCovarianceModel_variance(variance, basis))
NewRankMCovarianceModelCovariance(covariance, basis) ==
    Construct("RankMCovarianceModel(covariance, basis)", <<covariance, basis>>,
              RankMCovarianceModel_covariance(covariance, basis))
RankMCovarianceModelCall(s, t) ==
    IsRankMCovarianceModel
        /\ Call("operator()", <<s, t>>, RankMCovarianceModel_call(dist, s, t))
RankMCovarianceModelPartialGradient(s, t) ==
    IsRankMCovarianceModel
        /\ Call("partialGradient", <<s, t>>,
                RankMCovarianceModel_partialGradient(dist, s, t))

\* constructors, covariance and gradient of a RankMCovarianceModel
NextCovariance ==
    \/ \E n \in SpatialDimensions : NewRankMCovarianceModelDefault(n)
    \/ \E v \in Variances, b \in Bases : NewRankMCovarianceModelVariance(v, b)
    \/ \E c \in Covariances, b \in Bases : NewRankMCovarianceModelCovariance(c, b)
    \/ \E s \in CovariancePoints, t \in CovariancePoints : RankMCovarianceModelCall(s, t)
    \/ \E s \in CovariancePoints, t \in CovariancePoints :
           RankMCovarianceModelPartialGradient(s, t)

SpecCovariance == Init /\ [][NextCovariance]_vars

(* C15: partialGradient(s, t) never returns a matrix.  A point s of the    *)
(* wrong dimension ends the call with InvalidArgument about s, whatever t  *)
(* is; with s right, a point t of the wrong dimension ends it with         *)
(* InvalidArgument about t; with both right it ends with NotYetImplemented.*)
C15_PartialGradientNeverReturns ==
    ret.op = "partialGradient" =>
        LET s == ret.arg[1]
            t == ret.arg[2]
        IN  /\ ret.status # "ok"
            /\ Len(s) # dist.spatialDimension_ =>
                  /\ ret.status = "InvalidArgument"
                  /\ ret.val = Term("the point s has dimension", <<Len(s)>>)
            /\ (Len(s) = dist.spatialDimension_ /\ Len(t) # dist.spatialDimension_) =>
                  /\ ret.status = "InvalidArgument"
                  /\ ret.val = Term("the point t has dimension", <<Len(t)>>)
            /\ (Len(s) = dist.spatialDimension_ /\ Len(t) = dist.spatialDimension_) =>
                  ret.status = "NotYetImplemented"

\* partialGradient was called with both points of the wrong dimension and
\* failed on s
C15_Witness ==
    /\ IsRankMCovarianceModel /\ ret.op = "partialGradient"
    /\ Len(ret.arg[1]) # dist.spatialDimension_
    /\ Len(ret.arg[2]) # dist.spatialDimension_
    /\ ret.status = "InvalidArgument"
    /\ ret.val = Term("the point s has dimension", <<Len(ret.arg[1])>>)

---------------------------------------------------------------------------
(* The moment accessors of Frechet and GeneralizedPareto.                  *)

Four == Sc(4, 0)

\* Frechet::getStandardDeviation: the square root of getCovariance()(0, 0)
Frechet_getStandardDeviation(d) ==
    LET c == getCovariance(d, Frechet_computeCovariance(d))
    IN  IF c.exc # "none" THEN c
        ELSE Outcome(c.d, "none", Term("sqrt", <<c.val>>), c.computed)

Frechet_getSkewness(d) ==
    IF ~Gt(d.alpha_, Three) THEN Throw("InvalidArgument", d)
    ELSE Return(d, Term("skewness", <<d.alpha_>>))

Frechet_getKurtosis(d) ==
    IF ~Gt(d.alpha_, Four) THEN Throw("InvalidArgument", d)
    ELSE Return(d, Term("kurtosis", <<d.alpha_>>))

Frechet_getStandardMoment(d, n) ==
    IF Ge(Sc(n, 0), d.alpha_) THEN Throw("NotDefined", d)
    ELSE Return(d, Term("Gamma(1-n/alpha)", <<n, d.alpha_>>))

GeneralizedPareto_getStandardDeviation(d) ==
    LET c == getCovariance(d, GeneralizedPareto_computeCovariance(d))
    IN  IF c.exc # "none" THEN c
        ELSE Outcome(c.d, "none", Term("sqrt", <<c.val>>), c.computed)

\* xi_ >= 1.0 / 3.0, decided as 3 * xi_ >= 1
GeneralizedPareto_getSkewness(d) ==
    IF Ge(Mul(Three, d.xi_), One) THEN Throw("NotDefined", d)
    ELSE Return(d, Term("2*(1+xi)*sqrt(1-2*xi)/(1-3*xi)", <<d.xi_>>))

\* xi_ >= 1.0 / 4.0
GeneralizedPareto_getKurtosis(d) ==
    IF Ge(d.xi_, Sc(25, -2)) THEN Throw("NotDefined", d)
    ELSE Return(d, Term("3*(1-2*xi)*(3+xi*(1+2*xi))/((1-4*xi)*(1-3*xi))", <<d.xi_>>))

\* the inputs of the moment accessors: every threshold of alpha_ and xi_
\* has a value on each side of it
MaxOrder == 5
MomentAlphaValues == {One, Sc(15, -1), Two, Three, Four, Sc(5, 0)}
MomentXiValues == {Neg(Half), Zero, Sc(25, -2), Sc(3, -1), Sc(4, -1), Half, One}
MomentOrders == 0..MaxOrder

FrechetStandardDeviation ==
    IsFrechet /\ Call("getStandardDeviation", <<>>, Frechet_getStandardDeviation(dist))
FrechetSkewness == IsFrechet /\ Call("getSkewness", <<>>, Frechet_getSkewness(dist))
FrechetKurtosis == IsFrechet /\ Call("getKurtosis", <<>>, Frechet_getKurtosis(dist))
FrechetStandardMoment(n) ==
    IsFrechet /\ Call("getStandardMoment", <<n>>, Frechet_getStandardMoment(dist, n))
GeneralizedParetoStandardDeviation ==
    IsGeneralizedPareto
        /\ Call("getStandardDeviation", <<>>, GeneralizedPareto_getStandardDeviation(dist))
GeneralizedParetoSkewness ==
    IsGeneralizedPareto /\ Call("getSkewness", <<>>, GeneralizedPareto_getSkewness(dist))
GeneralizedParetoKurtosis ==
    IsGeneralizedPareto /\ Call("getKurtosis", <<>>, GeneralizedPareto_getKurtosis(dist))

\* constructors and moment accessors
NextMoment ==
    \/ \E al \in MomentAlphaValues, be \in BetaValues, ga \in GammaValues :
           NewFrechet(al, be, ga)
    \/ \E si \in SigmaValues, xi \in MomentXiValues : NewGeneralizedPareto(si, xi)
    \/ FrechetMean
    \/ FrechetCovariance
    \/ FrechetStandardDeviation
    \/ FrechetSkewness
    \/ FrechetKurtosis
    \/ \E n \in MomentOrders : FrechetStandardMoment(n)
    \/ GeneralizedParetoMean
    \/ GeneralizedParetoCovariance
    \/ GeneralizedParetoStandardDeviation
    \/ GeneralizedParetoSkewness
    \/ GeneralizedParetoKurtosis

SpecMoment == Init /\ [][NextMoment]_vars

\* the moment accessor op has no value for the parameters of d
MomentUndefined(d, op, arg) ==
    CASE d.kind = "Frechet" ->
           CASE op \in {"covariance", "getStandardDeviation"} -> Le(d.alpha_, Two)
             [] op = "getSkewness" -> Le(d.alpha_, Three)
             [] op = "getKurtosis" -> Le(d.alpha_, Four)
             [] op = "getStandardMoment" -> Ge(Sc(arg[1], 0), d.alpha_)
             [] OTHER -> FALSE
      [] d.kind = "GeneralizedPareto" ->
           CASE op = "mean" -> Ge(d.xi_, One)
             [] op \in {"covariance", "getStandardDeviation"} -> Ge(d.xi_, Half)
             [] op = "getSkewness" -> Ge(Mul(Three, d.xi_), One)
             [] op = "getKurtosis" -> Ge(d.xi_, Sc(25, -2))
             [] OTHER -> FALSE
      [] OTHER -> FALSE

(* C17: a moment accessor whose value is undefined for the parameters of   *)
(* the instance ends with NotDefined: covariance(), getStandardDeviation(),*)
(* getSkewness(), getKurtosis() and getStandardMoment(n) of a Frechet, and  *)
(* mean(), covariance(), getStandardDeviation(), getSkewness() and          *)
(* getKurtosis() of a GeneralizedPareto.                                    *)
C17_UndefinedMomentNotDefined ==
    (Exists /\ MomentUndefined(dist, ret.op, ret.arg)) => ret.status = "NotDefined"

---------------------------------------------------------------------------
(* Persistence as a round trip: an object is saved, and the factory of its *)
(* class builds a fresh instance that loads what was written.              *)

\* the instance the factory of Frechet starts from
Frechet_default == Frechet(One, One, Zero).d

\* the base class of the covariance models writes and reads its own members
CovarianceModelImplementation_save(d) ==
    saveAttribute(saveAttribute(saveAttribute(saveAttribute(<<>>,
        "scale_", d.scale_), "amplitude_", d.amplitude_),
        "spatialDimension_", d.spatialDimension_), "dimension_", d.dimension_)

CovarianceModelImplementation_load(d, written) ==
    [d EXCEPT !.scale_ = loadAttribute(written, "scale_"),
              !.amplitude_ = loadAttribute(written, "amplitude_"),
              !.spatialDimension_ = loadAttribute(written, "spatialDimension_"),
              !.dimension_ = loadAttribute(written, "dimension_")]

RankMCovarianceModel_save(d) ==
    [kind |-> "RankMCovarianceModel",
     attrs |-> saveAttribute(saveAttribute(saveAttribute(saveAttribute(
                   CovarianceModelImplementation_save(d),
                   "variance_", d.variance_), "covariance_", d.covariance_),
                   "basis_", d.basis_), "functions_", d.functions_)]

RankMCovarianceModel_load(d, adv) ==
    Return([CovarianceModelImplementation_load(d, adv.attrs)
                EXCEPT !.variance_ = loadAttribute(adv.attrs, "variance_"),
                       !.covariance_ = loadAttribute(adv.attrs, "covariance_"),
                       !.basis_ = loadAttribute(adv.attrs, "basis_"),
                       !.functions_ = loadAttribute(adv.attrs, "functions_")],
           NoValue)

\* LinearCombinationGradient(evaluation); LinearCombinationGradient() holds
\* the default evaluation, which has no function
LinearCombinationGradient(evaluation) ==
    [kind |-> "LinearCombinationGradient", evaluation_ |-> evaluation]

LinearCombinationEvaluation(coefficients, functionsCollection) ==
    [coefficients_ |-> coefficients, functionsCollection_ |-> functionsCollection]

LinearCombinationGradient_default ==
    LinearCombinationGradient(LinearCombinationEvaluation(<<>>, <<>>))

LinearCombinationGradient_save(d) ==
    [kind |-> "LinearCombinationGradient",
     attrs |-> saveAttribute(<<>>, "evaluation_", d.evaluation_)]

LinearCombinationGradient_load(d, adv) ==
    Return([d EXCEPT !.evaluation_ = loadAttribute(adv.attrs, "evaluation_")], NoValue)

Evaluations ==
    {LinearCombinationEvaluation(<<One>>, <<"f">>),
     LinearCombinationEvaluation(<<One, Two>>, <<"f", "g">>),
     LinearCombinationEvaluation(<<Two, One>>, <<"f", "g">>)}

IsLinearCombinationGradient == dist.kind = "LinearCombinationGradient"

NewLinearCombinationGradientDefault ==
    Construct("LinearCombinationGradient()", <<>>,
              Return(LinearCombinationGradient_default, NoValue))
NewLinearCombinationGradient(evaluation) ==
    Construct("LinearCombinationGradient", <<evaluation>>,
              Return(LinearCombinationGradient(evaluation), NoValue))

RankMCovarianceModelSave ==
    IsRankMCovarianceModel
        /\ Call("save", AttributeValues(RankMCovarianceModel_save(dist).attrs),
                Return(dist, RankMCovarianceModel_save(dist)))
LinearCombinationGradientSave ==
    IsLinearCombinationGradient
        /\ Call("save", AttributeValues(LinearCombinationGradient_save(dist).attrs),
                Return(dist, LinearCombinationGradient_save(dist)))

\* the record that the last call, a save, wrote
Saved == ret.op = "save" /\ ret.status = "ok"

\* Factory<T>: a default instance of the class loads the record saved last
ArcsineFactoryLoad ==
    IsArcsine /\ Saved
        /\ Call("load", AttributeValues(ret.val.attrs), Arcsine_load(Arcsine_default, ret.val))
FrechetFactoryLoad ==
    IsFrechet /\ Saved
        /\ Call("load", AttributeValues(ret.val.attrs), Frechet_load(Frechet_default, ret.val))
GeneralizedParetoFactoryLoad ==
    IsGeneralizedPareto /\ Saved
        /\ Call("load", AttributeValues(ret.val.attrs),
                GeneralizedPareto_load(GeneralizedPareto_default, ret.val))
RankMCovarianceModelFactoryLoad ==
    IsRankMCovarianceModel /\ Saved
        /\ Call("load", AttributeValues(ret.val.attrs),
                RankMCovarianceModel_load(RankMCovarianceModel_default(1).d, ret.val))
LinearCombinationGradientFactoryLoad ==
    IsLinearCombinationGradient /\ Saved
        /\ Call("load", AttributeValues(ret.val.attrs),
                LinearCombinationGradient_load(LinearCombinationGradient_default, ret.val))

\* constructors, save and the load of a fresh instance
NextRoundTrip ==
    \/ \E a \in ArcsineValues, b \in ArcsineValues : NewArcsine(a, b)
    \/ \E al \in AlphaValues, be \in BetaValues, ga \in GammaValues : NewFrechet(al, be, ga)
    \/ \E si \in SigmaValues, xi \in XiValues : NewGeneralizedPareto(si, xi)
    \/ \E n \in SpatialDimensions : NewRankMCovarianceModelDefault(n)
    \/ \E v \in Variances, b \in Bases : NewRankMCovarianceModelVariance(v, b)
    \/ \E c \in Covariances, b \in Bases : NewRankMCovarianceModelCovariance(c, b)
    \/ NewLinearCombinationGradientDefault
    \/ \E ev \in Evaluations : NewLinearCombinationGradient(ev)
    \/ \E w \in Weights : SetWeight(w)
    \/ ArcsineSave
    \/ FrechetSave
    \/ GeneralizedParetoSave
    \/ RankMCovarianceModelSave
    \/ LinearCombinationGradientSave
    \/ ArcsineFactoryLoad
    \/ FrechetFactoryLoad
    \/ GeneralizedParetoFactoryLoad
    \/ RankMCovarianceModelFactoryLoad
    \/ LinearCombinationGradientFactoryLoad

SpecRoundTrip == Init /\ [][NextRoundTrip]_vars

\* the attribute names of each class, after those of its base class
OwnAttributeNames(kind) ==
    CASE kind = "Frechet" -> <<"alpha_", "beta_", "gamma_">>
      [] kind = "GeneralizedPareto" -> <<"sigma_", "xi_">>
      [] kind = "Arcsine" -> <<"a_", "b_">>
      [] kind = "RankMCovarianceModel" ->
             <<"variance_", "covariance_", "basis_", "functions_">>
      [] kind = "LinearCombinationGradient" -> <<"evaluation_">>

\* the members of d that its class persists
OwnAttributes(d) ==
    LET names == OwnAttributeNames(d.kind) IN [i \in 1..Len(names) |-> d[names[i]]]

\* the last Len(t) elements of the sequence s are t
EndsWith(s, t) ==
    Len(s) >= Len(t) /\ SubSeq(s, Len(s) - Len(t) + 1, Len(s)) = t

(* C18: persistence is a round trip.  save writes, after the attributes of *)
(* the base class, the attribute names of the class, and the load of what  *)
(* was saved into a fresh instance of the class succeeds and yields the    *)
(* same members and, for a distribution, the same range.                   *)
C18_RoundTrip ==
    [][/\ ret'.op = "save" =>
              EndsWith(AttributeNames(ret'.val.attrs), OwnAttributeNames(dist.kind))
       /\ (ret.op = "save" /\ ret'.op = "load") =>
              /\ ret'.status = "ok"
              /\ dist'.kind = dist.kind
              /\ OwnAttributes(dist') = OwnAttributes(dist)
              /\ dist.kind \in Constructors => dist'.range_ = dist.range_]_vars

\* a Frechet with alpha_ # beta_ and a weight that is not the default one
\* was loaded by a fresh instance
C18_Witness ==
    /\ IsFrechet /\ ret.op = "load" /\ ret.status = "ok"
    /\ dist.alpha_ # dist.beta_ /\ dist.weight_ # 1
    /\ ret.arg = <<dist.alpha_, dist.beta_, dist.gamma_>>
    /\ ~dist.isAlreadyComputedMean_

\* the bounds of the interval r are both finite numbers, in increasing order
Ordered(r) ==
    (r.finiteLowerBound /\ r.finiteUpperBound) =>
        /\ r.lowerBound.f = "scalar" /\ r.upperBound.f = "scalar"
        /\ Le(r.lowerBound.args[1], r.upperBound.args[1])

ReadOnly ==
    {"getBootstrapSize", "getConfidenceLevel", "getUseAsymptoticDistribution"}
        \cup Accessors

(* C20: after a mutating call on a handle, that handle is the sole owner   *)
(* of its implementation; a read-only accessor leaves every handle bound   *)
(* to the implementation it was bound to and creates, changes and          *)
(* destroys no implementation.                                             *)
C20_SoleOwner ==
    [][/\ sret'.op \in Setters => unique(handle', sret'.h)
       /\ sret'.op \in ReadOnly => (handle' = handle /\ impl' = impl)]_vars

\* setConfidenceLevel was called on a handle that shared its implementation,
\* and the handle is now the only one bound to its implementation
C20_Witness ==
    /\ sret.op = "setConfidenceLevel" /\ sret.shared
    /\ unique(handle, sret.h)
    /\ impl[handle[sret.h]].live
    /\ getConfidenceLevel(handle, impl, sret.h) = sret.val[1]

\* the calls that build an instance, and the calls that write a parameter
ConstructorCalls ==
    {"Arcsine()", "Arcsine", "Frechet", "GeneralizedPareto()", "GeneralizedPareto"}
Mutators == NamedSetters \cup {"setParameter"}

(* C21: a cache flag of an instance goes from false to true only in a      *)
(* mean() / covariance() call that returns, and from true to false only in *)
(* a setter or setParameter call that returns; a mean() or covariance()    *)
(* that fails leaves the whole instance, flag and cached value included,   *)
(* as it was, and the same call made again fails the same way.             *)
C21_CacheFlagTransitions ==
    [][(Exists /\ ret'.op \notin ConstructorCalls) =>
          /\ (~dist.isAlreadyComputedMean_ /\ dist'.isAlreadyComputedMean_) =>
                 (ret'.op = "mean" /\ ret'.status = "ok")
          /\ (~dist.isAlreadyComputedCovariance_ /\ dist'.isAlreadyComputedCovariance_) =>
                 (ret'.op = "covariance" /\ ret'.status = "ok")
          /\ (dist.isAlreadyComputedMean_ /\ ~dist'.isAlreadyComputedMean_) =>
                 (ret'.op \in Mutators /\ ret'.status = "ok")
          /\ (dist.isAlreadyComputedCovariance_ /\ ~dist'.isAlreadyComputedCovariance_) =>
                 (ret'.op \in Mutators /\ ret'.status = "ok")
          /\ (ret'.op \in {"mean", "covariance"} /\ ret'.status # "ok") =>
                 (dist' = dist /\ ret'.val = NoValue)
          /\ (ret.op \in {"mean", "covariance"} /\ ret.status # "ok" /\ ret'.op = ret.op) =>
                 ret'.status = ret.status]_vars

\* covariance() of a Frechet with alpha_ <= 2 has failed: the flag is false
\* and the covariance was never assigned
C21_Witness ==
    /\ IsFrechet /\ ~Gt(dist.alpha_, Two)
    /\ ret.op = "covariance" /\ ret.status # "ok"
    /\ ~dist.isAlreadyComputedCovariance_ /\ dist.covariance_ = Unset

\* the two constructors of RankMCovarianceModel that take the coefficients
ParameterConstructors ==
    {"RankMCovarianceModel(variance, basis)", "RankMCovarianceModel(covariance, basis)"}

(* C23: a parameter constructor of RankMCovarianceModel that is given      *)
(* coefficients of dimension 0 fails with InvalidArgument, and one that is *)
(* given more returns.  Once it has returned, exactly one of variance_ and *)
(* covariance_ is non-empty: a vector of variances, or a diagonal          *)
(* covariance, is kept in variance_ (the diagonal) with covariance_ empty, *)
(* a covariance that is not diagonal is kept in covariance_ with variance_ *)
(* empty; and functions_ has max(size of variance_, dimension of           *)
(* covariance_) elements.                                                  *)
C23_OneCoefficientStore ==
    ret.op \in ParameterConstructors =>
        LET given == ret.arg[1]
            diagonal == [i \in 1..Len(given) |-> given[i][i]]
        IN  /\ Len(given) = 0 => ret.status = "InvalidArgument"
            /\ Len(given) > 0 => ret.status = "ok"
            /\ ret.status = "ok" =>
                  /\ (Len(dist.variance_) > 0) # (Len(dist.covariance_) > 0)
                  /\ Len(dist.functions_)
                         = Max(Len(dist.variance_), Len(dist.covariance_))
                  /\ ret.op = "RankMCovarianceModel(variance, basis)" =>
                         (dist.variance_ = given /\ dist.covariance_ = <<>>)
                  /\ (ret.op = "RankMCovarianceModel(covariance, basis)"
                          /\ isDiagonal(given)) =>
                         (dist.variance_ = diagonal /\ dist.covariance_ = <<>>)
                  /\ (ret.op = "RankMCovarianceModel(covariance, basis)"
                          /\ ~isDiagonal(given)) =>
                         (dist.variance_ = <<>> /\ dist.covariance_ = given)

\* the covariance constructor was given a diagonal matrix of dimension 2 and
\* kept its diagonal in variance_
C23_Witness ==
    /\ IsRankMCovarianceModel
    /\ ret.op = "RankMCovarianceModel(covariance, basis)" /\ ret.status = "ok"
    /\ Len(ret.arg[1]) = 2 /\ isDiagonal(ret.arg[1])
    /\ dist.variance_ = <<One, Two>> /\ dist.covariance_ = <<>>
    /\ Len(dist.functions_) = 2

---------------------------------------------------------------------------
(* The dimension checks of operator(), discretize and gradient.  The flag  *)
(* computed of an outcome of these calls tells whether a basis function or *)
(* a gradient of one was evaluated during the call.                        *)

\* the input dimension of a function of a collection
FunctionInputDimension(f) == IF f = "h" THEN 2 ELSE 1

\* LinearCombinationEvaluation::getInputDimension: that of the first
\* function, 0 without any
LinearCombinationEvaluation_getInputDimension(e) ==
    IF Len(e.functionsCollection_) = 0 THEN 0
    ELSE FunctionInputDimension(e.functionsCollection_[1])

LinearCombinationGradient_getInputDimension(d) ==
    LinearCombinationEvaluation_getInputDimension(d.evaluation_)

\* gradient(inP): the sum of coefficients_[i] * functionsCollection_[i].gradient(inP)
LinearCombinationGradient_gradient(d, inP) ==
    LET inputDimension == LinearCombinationGradient_getInputDimension(d)
        size == Len(d.evaluation_.functionsCollection_)
    IN  IF Len(inP) # inputDimension
        THEN ThrowMessage("InvalidArgument", d,
                 Term("the given point has an invalid dimension",
                      <<inputDimension, Len(inP)>>))
        ELSE Outcome(d, "none",
                 Term("Matrix",
                      [i \in 1..size |-> <<d.evaluation_.coefficients_[i],
                                           d.evaluation_.functionsCollection_[i], inP>>]),
                 size > 0)

Samples == {NumericalSample(n, m) : n \in 0..2, m \in 0..MaxDim}
DimensionEvaluations ==
    Evaluations \cup {LinearCombinationEvaluation(<<>>, <<>>),
                      LinearCombinationEvaluation(<<Two>>, <<"h">>)}

NewGradientOf(e) ==
    Construct("LinearCombinationGradient", <<e>>,
              Return(LinearCombinationGradient(e), NoValue))
RankMCovarianceModelDiscretize(vertices) ==
    IsRankMCovarianceModel
        /\ Call("discretize", <<vertices>>, RankMCovarianceModel_discretize(dist, vertices))
LinearCombinationGradientGradient(inP) ==
    IsLinearCombinationGradient
        /\ Call("gradient", <<inP>>, LinearCombinationGradient_gradient(dist, inP))

\* the calls that check the dimension of their arguments
NextDimension ==
    \/ \E n \in SpatialDimensions : NewRankMCovarianceModelDefault(n)
    \/ \E v \in Variances, b \in Bases : NewRankMCovarianceModelVariance(v, b)
    \/ \E c \in Covariances, b \in Bases : NewRankMCovarianceModelCovariance(c, b)
    \/ \E e \in DimensionEvaluations : NewGradientOf(e)
    \/ \E s \in CovariancePoints, t \in CovariancePoints : RankMCovarianceModelCall(s, t)
    \/ \E vertices \in Samples : RankMCovarianceModelDiscretize(vertices)
    \/ \E inP \in CovariancePoints : LinearCombinationGradientGradient(inP)

SpecDimension == Init /\ [][NextDimension]_vars

\* the arguments of the last call have the dimension the instance expects
DimensionsMatch ==
    CASE ret.op = "operator()" ->
             /\ Len(ret.arg[1]) = dist.spatialDimension_
             /\ Len(ret.arg[2]) = dist.spatialDimension_
      [] ret.op = "discretize" -> ret.arg[1].dimension = dist.spatialDimension_
      [] ret.op = "gradient" ->
             Len(ret.arg[1]) = LinearCombinationGradient_getInputDimension(dist)
      [] OTHER -> TRUE

(* C24: operator()(s, t), discretize(vertices) and gradient(inP) called    *)
(* with an argument whose dimension is not the one the instance expects    *)
(* end with InvalidArgument, and no basis function and no gradient of one  *)
(* was evaluated in that call; a call that evaluated one had arguments of  *)
(* the right dimensions.                                                   *)
C24_DimensionCheckedFirst ==
    ret.op \in {"operator()", "discretize", "gradient"} =>
        /\ ~DimensionsMatch => (ret.status = "InvalidArgument" /\ ~ret.computed)
        /\ ret.computed => DimensionsMatch

\* discretize was given vertices of dimension 2 by a model of spatial
\* dimension 1 that holds two functions, and evaluated none
C24_Witness ==
    /\ IsRankMCovarianceModel /\ Len(dist.functions_) = 2
    /\ ret.op = "discretize" /\ ret.arg[1].dimension = 2
    /\ dist.spatialDimension_ = 1
    /\ ret.status = "InvalidArgument" /\ ~ret.computed

---------------------------------------------------------------------------
(* The standard moments of GeneralizedPareto.                              *)

\* trunc(x): the integer part of x, towards zero
Trunc(x) ==
    IF x.e >= 0 THEN x.m * Pow10(x.e)
    ELSE Sign(x) * (AbsInt(x.m) \div Pow10(0 - x.e))

\* GeneralizedPareto::getStandardMoment(n)
GeneralizedPareto_getStandardMoment(d, n) ==
    IF n = 0 THEN Return(d, One)
    ELSE IF d.xi_ = Zero THEN Return(d, Term("Gamma(n+1)", <<n>>))
    ELSE IF Gt(d.xi_, Zero)
    THEN IF n < Trunc(Div(One, d.xi_))
         THEN Return(d, Term("standardMoment(xi>0)", <<n, d.xi_>>))
         ELSE Throw("NotDefined", d)
    ELSE Return(d, Term("standardMoment(xi<0)", <<n, d.xi_>>))

\* shape parameters on both sides of 1/2 and 1; their inverses are 4, 2.5,
\* 2, 1.25, 1 and 0.5
StandardMomentXiValues ==
    {Neg(Half), Zero, Sc(25, -2), Sc(4, -1), Half, Sc(8, -1), One, Two}

GeneralizedParetoStandardMoment(n) ==
    IsGeneralizedPareto
        /\ Call("getStandardMoment", <<n>>, GeneralizedPareto_getStandardMoment(dist, n))

\* constructor, mean, covariance and standard moments of GeneralizedPareto
NextStandardMoment ==
    \/ \E si \in SigmaValues, xi \in StandardMomentXiValues : NewGeneralizedPareto(si, xi)
    \/ GeneralizedParetoMean
    \/ GeneralizedParetoCovariance
    \/ \E n \in MomentOrders : GeneralizedParetoStandardMoment(n)

SpecStandardMoment == Init /\ [][NextStandardMoment]_vars

(* C25: getStandardMoment(n) of a GeneralizedPareto with xi > 0, for an    *)
(* order n >= 1, returns a value when n < 1/xi and ends with NotDefined    *)
(* when n >= 1/xi; so the order 1 returns for xi < 1 and the order 2 for   *)
(* xi < 1/2.                                                               *)
C25_StandardMomentDefined ==
    (IsGeneralizedPareto /\ ret.op = "getStandardMoment"
         /\ Gt(dist.xi_, Zero) /\ ret.arg[1] >= 1) =>
        IF Lt(Sc(ret.arg[1], 0), Div(One, dist.xi_))
        THEN ret.status = "ok"
        ELSE ret.status = "NotDefined"

---------------------------------------------------------------------------
(* The derivatives of Arcsine.  A quotient of doubles whose denominator is *)
(* 0 is not a number of the model: it is NaN when the numerator is 0 too,  *)
(* and an infinity with the sign of the numerator otherwise (the           *)
(* denominators below are products of non-negative factors).               *)

NaN == Term("NaN", <<>>)
Infinity(sign) == Term("inf", <<sign>>)

\* the quotient named f: num and den have the sign of the two operands
Quotient(f, num, den, args) ==
    IF den = Zero THEN (IF num = Zero THEN NaN ELSE Infinity(Sign(num)))
    ELSE Term(f, args)

\* c * g for a coefficient c # 0
Scaled(c, g) ==
    IF g = NaN THEN NaN
    ELSE IF g.f = "inf" THEN Infinity(Sign(c) * g.args[1])
    ELSE Term("*", <<c, g>>)

\* c0 * g0 + c1 * g1
LinearCombination(c0, g0, c1, g1) ==
    LET t0 == Scaled(c0, g0)
        t1 == Scaled(c1, g1)
    IN  IF t0 = NaN \/ t1 = NaN THEN NaN
        ELSE IF t0.f = "inf" /\ t1.f = "inf" THEN (IF t0 = t1 THEN t0 ELSE NaN)
        ELSE IF t0.f = "inf" THEN t0
        ELSE IF t1.f = "inf" THEN t1
        ELSE Term("+", <<t0, t1>>)

\* Arcsine::computeDDF
Arcsine_computeDDF(d, point) ==
    IF Len(point) # 1 THEN Throw("InvalidArgument", d)
    ELSE LET x == point[1]
         IN  IF Lt(d.a_, x) /\ Le(x, d.b_)
             THEN Return(d, <<Quotient("ddf", Sub(x, Mul(Half, Add(d.a_, d.b_))),
                                       Mul(Sub(x, d.a_), Sub(d.b_, x)),
                                       <<x, d.a_, d.b_>>)>>)
             ELSE Return(d, <<Num(Zero)>>)

\* Arcsine::computePDFGradient
Arcsine_computePDFGradient(d, point) ==
    IF Len(point) # 1 THEN Throw("InvalidArgument", d)
    ELSE LET x == point[1]
             root == Mul(Sub(d.b_, x), Sub(x, d.a_))
             squares == Mul(Mul(Sub(x, d.b_), Sub(x, d.b_)),
                            Mul(Sub(x, d.a_), Sub(x, d.a_)))
             g0 == Quotient("pdfGradient[0]",
                            Mul(Mul(Neg(Half), Sub(d.b_, d.a_)), root), squares,
                            <<x, d.a_, d.b_>>)
             g1 == Quotient("pdfGradient[1]",
                            Mul(Sub(Mul(Half, Add(d.a_, d.b_)), x), root), squares,
                            <<x, d.a_, d.b_>>)
         IN  IF Lt(d.a_, x) /\ Le(x, d.b_)
             THEN Return(d, <<LinearCombination(Neg(Half), g0, Half, g1),
                              LinearCombination(Half, g0, Half, g1)>>)
             ELSE Return(d, <<Num(Zero), Num(Zero)>>)

\* Arcsine::computeCDFGradient
Arcsine_computeCDFGradient(d, point) ==
    IF Len(point) # 1 THEN Throw("InvalidArgument", d)
    ELSE LET x == point[1]
             root == Mul(Sub(d.b_, x), Sub(x, d.a_))
             g0 == Quotient("cdfGradient[0]",
                            Sub(Mul(Half, Add(d.a_, d.b_)), x),
                            Mul(Mul(Half, Sub(d.b_, d.a_)), root),
                            <<x, d.a_, d.b_>>)
             g1 == Quotient("cdfGradient[1]", Neg(One), root, <<x, d.a_, d.b_>>)
         IN  IF Lt(d.a_, x) /\ Le(x, d.b_)
             THEN Return(d, <<LinearCombination(Neg(Half), g0, Half, g1),
                              LinearCombination(Half, g0, Half, g1)>>)
             ELSE Return(d, <<Num(Zero), Num(Zero)>>)

ArcsineDDF(point) ==
    IsArcsine /\ Call("computeDDF", point, Arcsine_computeDDF(dist, point))
ArcsinePDFGradient(point) ==
    IsArcsine /\ Call("computePDFGradient", point, Arcsine_computePDFGradient(dist, point))
ArcsineCDFGradient(point) ==
    IsArcsine /\ Call("computeCDFGradient", point, Arcsine_computeCDFGradient(dist, point))

\* constructors, density and derivatives of Arcsine
NextDerivative ==
    \/ NewArcsineDefault
    \/ \E a \in ArcsineValues, b \in ArcsineValues : NewArcsine(a, b)
    \/ \E point \in Points(ArcsineXs) : ArcsinePDF(point)
    \/ \E point \in Points(ArcsineXs) : ArcsineDDF(point)
    \/ \E point \in Points(ArcsineXs) : ArcsinePDFGradient(point)
    \/ \E point \in Points(ArcsineXs) : ArcsineCDFGradient(point)

SpecDerivative == Init /\ [][NextDerivative]_vars

(* C26: computeDDF, computePDFGradient and computeCDFGradient of Arcsine   *)
(* return the zero vector at every point where computePDF returns 0, that  *)
(* is for x <= a_ and for x >= b_, x = b_ included; no component is the    *)
(* result of a division by b_ - x = 0 or x - a_ = 0.                       *)
C26_DerivativesZeroOutside ==
    (IsArcsine /\ ret.status = "ok"
         /\ ret.op \in {"computeDDF", "computePDFGradient", "computeCDFGradient"}
         /\ Arcsine_computePDF(dist, ret.arg).val = Num(Zero)) =>
        \A i \in 1..Len(ret.val) : ret.val[i] = Num(Zero)

---------------------------------------------------------------------------
\* the parameter that the named setter op writes
ParameterOf(d, op) ==
    CASE op = "setAlpha" -> d.alpha_
      [] op = "setBeta" -> d.beta_
      [] op = "setGamma" -> d.gamma_
      [] op = "setSigma" -> d.sigma_
      [] op = "setXi" -> d.xi_
      [] op = "setA" -> d.a_
      [] op = "setB" -> d.b_

(* C27: a named setter called with a value of its domain that is the       *)
(* current value of its parameter returns and leaves the whole instance as *)
(* it was: parameters, range, weight, cache flags and cached mean and      *)
(* covariance.                                                             *)
C27_EqualValueKeepsAll ==
    [][(ret'.op \in NamedSetters
           /\ ~SetterRefuses(dist, ret'.op, ret'.arg[1])
           /\ ret'.arg[1] = ParameterOf(dist, ret'.op)) =>
          (ret'.status = "ok" /\ dist' = dist)]_vars

\* setGamma was called with the current gamma_ on a Frechet whose mean and
\* covariance were cached, and both are still cached
C27_Witness ==
    /\ IsFrechet /\ ret.op = "setGamma" /\ ret.status = "ok"
    /\ ret.arg[1] = dist.gamma_
    /\ dist.isAlreadyComputedMean_ /\ dist.isAlreadyComputedCovariance_
    /\ dist.mean_ # Unset /\ dist.covariance_ # Unset

---------------------------------------------------------------------------
\* the instance that the parameter constructor of a class builds from p
FreshInstance(kind, p) ==
    CASE kind = "Arcsine" -> Arcsine(p[1], p[2]).d
      [] kind = "Frechet" -> Frechet(p[1], p[2], p[3]).d
      [] kind = "GeneralizedPareto" -> GeneralizedPareto(p[1], p[2]).d

(* C28: a setParameter(p) call that returns leaves the weight of the       *)
(* instance as it was before the call, and every other field (parameters,  *)
(* range, cache flags, cached mean and covariance) is that of a freshly    *)
(* constructed instance with the parameters p.                             *)
C28_SetParameterKeepsWeight ==
    [][(ret'.op = "setParameter" /\ ret'.status = "ok") =>
          /\ dist'.weight_ = dist.weight_
          /\ dist' = [FreshInstance(dist.kind, ret'.arg) EXCEPT !.weight_ = dist.weight_]
          /\ ~dist'.isAlreadyComputedMean_ /\ ~dist'.isAlreadyComputedCovariance_]_vars

\* setParameter returned on a GeneralizedPareto of weight 2: the weight is
\* still 2, where a fresh instance has 1, and nothing is cached
C28_Witness ==
    /\ IsGeneralizedPareto /\ ret.op = "setParameter" /\ ret.status = "ok"
    /\ dist.weight_ = 2 /\ ContinuousDistribution.weight_ = 1
    /\ dist.sigma_ = ret.arg[1] /\ dist.xi_ = ret.arg[2]
    /\ ~dist.isAlreadyComputedMean_ /\ dist.mean_ = Unset

---------------------------------------------------------------------------
(* Arcsine::setAB writes both parameters at once.                          *)

\* Arcsine::setAB(a, b)
Arcsine_setAB(d, a, b) ==
    IF Ge(a, b) THEN Throw("InvalidArgument", d)
    ELSE Return(Arcsine_computeRange([d EXCEPT !.a_ = a, !.b_ = b]), NoValue)

ArcsineSetAB(a, b) == IsArcsine /\ Call("setAB", <<a, b>>, Arcsine_setAB(dist, a, b))

\* constructors, moments and the members of Arcsine that write a_ or b_
NextSetAB ==
    \/ NewArcsineDefault
    \/ \E a \in ArcsineValues, b \in ArcsineValues : NewArcsine(a, b)
    \/ ArcsineMean
    \/ ArcsineCovariance
    \/ \E a \in ArcsineValues : ArcsineSetA(a)
    \/ \E b \in ArcsineValues : ArcsineSetB(b)
    \/ \E a \in ArcsineValues, b \in ArcsineValues : ArcsineSetAB(a, b)

SpecSetAB == Init /\ [][NextSetAB]_vars

(* C29: a call of setA, setB or setAB of an Arcsine that returns and has   *)
(* changed a_ or b_ leaves both cache flags false.                         *)
C29_WritersInvalidate ==
    [][(IsArcsine /\ ret'.op \in {"setA", "setB", "setAB"} /\ ret'.status = "ok"
           /\ (dist'.a_ # dist.a_ \/ dist'.b_ # dist.b_)) =>
          (~dist'.isAlreadyComputedMean_ /\ ~dist'.isAlreadyComputedCovariance_)]_vars

---------------------------------------------------------------------------
(* The characteristic functions.  A complex number is the pair of its real *)
(* and imaginary parts; cos, sin and j0 are evaluated at 0 only, and are   *)
(* the formula's name applied to the argument elsewhere.                   *)

Complex(real, imag) == [real |-> real, imag |-> imag]

\* std::exp(Complex(0.0, phase)) = cos(phase) + i sin(phase)
ExpI(phase) ==
    IF phase = Zero THEN Complex(Num(One), Num(Zero))
    ELSE Complex(Term("cos", <<phase>>), Term("sin", <<phase>>))

\* the Bessel function j0
J0(y) == IF y = Zero THEN Num(One) ELSE Term("j0", <<y>>)

\* z * r for a complex z and a real r
ComplexTimes(z, r) ==
    IF r = Num(One) THEN z
    ELSE Complex(Term("*", <<z.real, r>>), Term("*", <<z.imag, r>>))

\* 1.0 / Complex(1.0, -x) = (1 + i x) / (1 + x^2)
InverseOneMinusI(x) ==
    LET n == Add(One, Mul(x, x))
    IN  Complex(Num(Div(One, n)), Num(Div(x, n)))

\* Arcsine::computeCharacteristicFunction(x)
Arcsine_computeCharacteristicFunction(d, x) ==
    LET y == Mul(Mul(Half, Sub(d.b_, d.a_)), x)
    IN  Return(d, ComplexTimes(ExpI(Add(d.a_, y)), J0(y)))

\* GeneralizedPareto::computeCharacteristicFunction(x): the closed form for
\* xi_ = 0, the numerical integration of the base class otherwise
GeneralizedPareto_computeCharacteristicFunction(d, x) ==
    IF d.xi_ = Zero THEN Return(d, InverseOneMinusI(x))
    ELSE Return(d, Term("DistributionImplementation::computeCharacteristicFunction",
                        <<x, d.sigma_, d.xi_>>))

CharacteristicXs == {Neg(Two), Neg(One), Zero, One, Two}

ArcsineCharacteristicFunction(x) ==
    IsArcsine /\ Call("computeCharacteristicFunction", <<x>>,
                      Arcsine_computeCharacteristicFunction(dist, x))
GeneralizedParetoCharacteristicFunction(x) ==
    IsGeneralizedPareto
        /\ Call("computeCharacteristicFunction", <<x>>,
                GeneralizedPareto_computeCharacteristicFunction(dist, x))

\* constructors and characteristic functions
NextCharacteristic ==
    \/ NewArcsineDefault
    \/ \E a \in ArcsineValues, b \in ArcsineValues : NewArcsine(a, b)
    \/ \E si \in SigmaValues, xi \in XiValues : NewGeneralizedPareto(si, xi)
    \/ \E x \in CharacteristicXs : ArcsineCharacteristicFunction(x)
    \/ \E x \in CharacteristicXs : GeneralizedParetoCharacteristicFunction(x)

SpecCharacteristic == Init /\ [][NextCharacteristic]_vars

(* C30: the characteristic function is 1 at 0: for every Arcsine, and for  *)
(* every GeneralizedPareto with xi_ = 0, computeCharacteristicFunction(0)  *)
(* returns the complex number 1 + 0i.                                      *)
C30_CharacteristicFunctionAtZero ==
    (ret.op = "computeCharacteristicFunction" /\ ret.arg[1] = Zero
         /\ (IsArcsine \/ (IsGeneralizedPareto /\ dist.xi_ = Zero))) =>
        (ret.status = "ok" /\ ret.val = Complex(Num(One), Num(Zero)))

===========================================================================
